---- MODULE Spec2Model ----
(***************************************************************************)
(* Verification model of the market analytics core (package market):       *)
(* the Dow-theory trading signal, the signal fusion of the comprehensive   *)
(* analyzer (also interleaved with a configuration update), the           *)
(* supply/demand zone analyzer, the FVG analyzer, the Fibonacci            *)
(* retracements, the VPVR volume profile and the channel analyzer.         *)
(*                                                                         *)
(* float64 values are modelled as exact rationals <<numerator,             *)
(* denominator>> (denominator > 0, lowest terms), so that every comparison *)
(* the code makes on prices, confidences and ratios is decided exactly.    *)
(***************************************************************************)
EXTENDS Integers, Sequences, FiniteSets, TLC

VARIABLES
    dowReq,          \* inputs of one DowTheoryAnalyzer.Analyze call
    tradingSignal,   \* DowTheoryData.TradingSignal it returned
    pcDow,           \* "ready" before the call, "done" after it
    config,          \* ComprehensiveAnalyzer.config
    req,             \* market snapshot handed to ComprehensiveAnalyzer.Analyze
    pc,              \* "ready" before Analyze, "done" after it
    result,          \* the ComprehensiveResult returned
    allSignals,      \* generateUnifiedSignals: signals collected, in order
    fusedSignals,    \* generateUnifiedSignals: output of fuseSignals
    fuseTrace,       \* canFuseSignals calls made by fuseSignals: <<i, j, answer>>
    fuseGroups,      \* per fused signal, the indices of allSignals merged into it
    sdKlines,        \* kline window handed to SupplyDemandAnalyzer.Analyze
    sdInterval,      \* milliseconds between the open times of its klines
    sdAppended,      \* klines appended to the window so far
    sdResult,        \* SupplyDemandData of the latest Analyze call
    sdPrevious,      \* SupplyDemandData of the Analyze call before it
    fvgKlines,       \* kline window handed to FVGAnalyzer.Analyze
    fvgAppended,     \* klines appended to the window so far
    fvgResult,       \* FVGData of the latest Analyze call
    fvgPrevious,     \* FVGData of the Analyze call before it
    fibKlines,       \* kline window handed to FibonacciAnalyzer.Analyze
    fibAppended,     \* klines appended to the window so far
    fibResult,       \* FibonacciData of the latest Analyze call
    vpKlines,        \* kline window handed to VPVRAnalyzer.Analyze
    vpConfig,        \* VPVRAnalyzer.config, which Analyze may rewrite
    vpAppended,      \* klines appended to the window so far
    vpProfile,       \* VolumeProfile of the latest Analyze call
    channelReq,      \* inputs of one ChannelAnalyzer.Analyze call
    channelData,     \* the ChannelData it returned
    pcChannel        \* "ready" before the call, "done" after it

dowVars == <<dowReq, tradingSignal, pcDow>>
caVars == <<config, req, pc, result, allSignals, fusedSignals, fuseTrace, fuseGroups>>
sdVars == <<sdKlines, sdInterval, sdAppended, sdResult, sdPrevious>>
fvgVars == <<fvgKlines, fvgAppended, fvgResult, fvgPrevious>>
fibVars == <<fibKlines, fibAppended, fibResult>>
vpVars == <<vpKlines, vpConfig, vpAppended, vpProfile>>
chVars == <<channelReq, channelData, pcChannel>>
vars == <<dowVars, caVars, sdVars, fvgVars, fibVars, vpVars, chVars>>

-----------------------------------------------------------------------------
(* float64 arithmetic as exact rationals *)

Abs(x) == IF x < 0 THEN -x ELSE x

RECURSIVE GCD(_, _)
GCD(a, b) == IF b = 0 THEN a ELSE GCD(b, a % b)

Q(n, d) ==
    LET s == IF d < 0 THEN -1 ELSE 1
        g == GCD(Abs(n), Abs(d))
    IN  <<(s * n) \div g, (s * d) \div g>>

R(n) == <<n, 1>>
Zero == R(0)
QAdd(a, b) == Q(a[1] * b[2] + b[1] * a[2], a[2] * b[2])
QSub(a, b) == Q(a[1] * b[2] - b[1] * a[2], a[2] * b[2])
QMul(a, b) == Q(a[1] * b[1], a[2] * b[2])
QDiv(a, b) == Q(a[1] * b[2], a[2] * b[1])
QLt(a, b) == a[1] * b[2] < b[1] * a[2]
QLe(a, b) == a[1] * b[2] <= b[1] * a[2]
QGt(a, b) == QLt(b, a)
QGe(a, b) == QLe(b, a)

min(a, b) == IF QLt(a, b) THEN a ELSE b
max(a, b) == IF QGt(a, b) THEN a ELSE b
abs(x) == IF QLt(x, Zero) THEN QSub(Zero, x) ELSE x

Nil == [isNil |-> TRUE]

MinOfInt(a, b) == IF a < b THEN a ELSE b

-----------------------------------------------------------------------------
(* Dow theory analyzer: configuration *)

dowConfig ==
    [ChannelConfig |->
        [MinWidth |-> Q(2, 100), MaxWidth |-> Q(15, 100),
         QualityThreshold |-> Q(7, 10), ParallelTolerance |-> Q(1, 10)],
     SignalConfig |->
        [MinConfidence |-> R(60), RiskRewardMin |-> Q(3, 2),
         BreakoutStrength |-> Q(15, 1000), VolumeConfirmation |-> TRUE]]

\* price of a trend line at time t: line.Slope*float64(t) + line.Intercept
LineAt(line, t) == QAdd(QMul(line.Slope, R(t)), line.Intercept)

areParallel(line1, line2) ==
    LET slopeDiff == abs(QSub(line1.Slope, line2.Slope))
        tolerance == dowConfig.ChannelConfig.ParallelTolerance
        avgSlope == QDiv(QAdd(abs(line1.Slope), abs(line2.Slope)), R(2))
    IN  IF avgSlope = Zero
        THEN QLt(slopeDiff, tolerance)
        ELSE QLt(QDiv(slopeDiff, avgSlope), tolerance)

createMiddleLine(upperLine, lowerLine) ==
    [Type |-> "support",
     Slope |-> QDiv(QAdd(upperLine.Slope, lowerLine.Slope), R(2)),
     Intercept |-> QDiv(QAdd(upperLine.Intercept, lowerLine.Intercept), R(2)),
     Strength |-> QDiv(QAdd(upperLine.Strength, lowerLine.Strength), R(2))]

calculateCurrentPosition(currentPrice, upperPrice, lowerPrice) ==
    IF QGt(currentPrice, QMul(upperPrice, Q(101, 100))) THEN "break"
    ELSE IF QLt(currentPrice, QMul(lowerPrice, Q(99, 100))) THEN "break"
    ELSE LET raw == QDiv(QSub(currentPrice, lowerPrice), QSub(upperPrice, lowerPrice))
             ratio == max(Zero, min(R(1), raw))
         IN  IF QGt(ratio, Q(7, 10)) THEN "upper"
             ELSE IF QLt(ratio, Q(3, 10)) THEN "lower"
             ELSE "middle"

\* `rest` stands for the parallelism, touch-count and time-span terms, which
\* depend on swing-point history only
calculateChannelQuality(upperLine, lowerLine, rest) ==
    min(QAdd(QMul(QDiv(QAdd(upperLine.Strength, lowerLine.Strength), R(2)),
                  Q(3, 10)),
             rest),
        R(1))

\* first line of trendLines[2..] parallel to the main line, else `constructed`
\* (the result of constructParallelLine over the swing points, Nil if none)
RECURSIVE findParallel(_, _, _, _)
findParallel(mainLine, trendLines, i, constructed) ==
    IF i > Len(trendLines) THEN constructed
    ELSE IF areParallel(mainLine, trendLines[i]) THEN trendLines[i]
    ELSE findParallel(mainLine, trendLines, i + 1, constructed)

buildParallelChannel(trendLines, constructed, rest, currentPrice, currentTime) ==
    IF Len(trendLines) < 1 THEN Nil
    ELSE
    LET mainTrendLine == trendLines[1]
        parallelLine == findParallel(mainTrendLine, trendLines, 2, constructed)
    IN  IF parallelLine = Nil THEN Nil
        ELSE
        LET upperLine == IF mainTrendLine.Type = "support"
                         THEN parallelLine ELSE mainTrendLine
            lowerLine == IF mainTrendLine.Type = "support"
                         THEN mainTrendLine ELSE parallelLine
            upperPrice == LineAt(upperLine, currentTime)
            lowerPrice == LineAt(lowerLine, currentTime)
            width == QDiv(abs(QSub(upperPrice, lowerPrice)), currentPrice)
        IN  IF QLt(width, dowConfig.ChannelConfig.MinWidth)
               \/ QGt(width, dowConfig.ChannelConfig.MaxWidth)
            THEN Nil
            ELSE [UpperLine |-> upperLine,
                  LowerLine |-> lowerLine,
                  MiddleLine |-> createMiddleLine(upperLine, lowerLine),
                  Width |-> width,
                  Direction |-> IF QGt(upperLine.Slope, Q(1, 1000)) THEN "up"
                                ELSE IF QLt(upperLine.Slope, Q(-1, 1000)) THEN "down"
                                ELSE "flat",
                  Quality |-> calculateChannelQuality(upperLine, lowerLine, rest),
                  CurrentPos |->
                      calculateCurrentPosition(currentPrice, upperPrice, lowerPrice)]

-----------------------------------------------------------------------------
(* Dow theory analyzer: trading signal *)

calculateRiskReward(signal) ==
    IF signal.Entry = Zero \/ signal.StopLoss = Zero \/ signal.TakeProfit = Zero
    THEN Zero
    ELSE
    LET risk == IF signal.Action = "buy"
                THEN QSub(signal.Entry, signal.StopLoss)
                ELSE QSub(signal.StopLoss, signal.Entry)
        reward == IF signal.Action = "buy"
                  THEN QSub(signal.TakeProfit, signal.Entry)
                  ELSE QSub(signal.Entry, signal.TakeProfit)
    IN  IF QLe(risk, Zero) THEN Zero ELSE QDiv(reward, risk)

RECURSIVE SumSeq(_, _, _)
SumSeq(s, from, to) == IF from > to THEN 0 ELSE s[from] + SumSeq(s, from + 1, to)

\* klines is the 3m window, of which only the volumes are read
confirmWithVolume(klines) ==
    IF Len(klines) < 10 THEN Q(8, 10)
    ELSE
    LET n == Len(klines)
        recentVolume == klines[n]
        start0 == IF n - 10 - 1 < 0 THEN 0 ELSE n - 10 - 1
        total == SumSeq(klines, start0 + 1, n - 1)
        count == n - 1 - start0
    IN  IF total = 0 THEN Q(8, 10)
        ELSE
        LET volumeRatio == QDiv(R(recentVolume), Q(total, count))
        IN  IF QGt(volumeRatio, R(2)) THEN R(1)
            ELSE IF QGt(volumeRatio, Q(15, 10)) THEN Q(9, 10)
            ELSE IF QGt(volumeRatio, Q(12, 10)) THEN Q(8, 10)
            ELSE Q(6, 10)

TradingSignal(type, action, confidence, entry, stopLoss, takeProfit, ts) ==
    [Type |-> type, Action |-> action, Confidence |-> confidence,
     Entry |-> entry, StopLoss |-> stopLoss, TakeProfit |-> takeProfit,
     RiskReward |-> Zero, Timestamp |-> ts]

generateChannelSignal(currentPrice, channel, trendStrength, currentTime) ==
    LET upperPrice == LineAt(channel.UpperLine, currentTime)
        lowerPrice == LineAt(channel.LowerLine, currentTime)
        middlePrice == LineAt(channel.MiddleLine, currentTime)
        confidence == QMul(channel.Quality, R(100))
        signal ==
            IF channel.CurrentPos = "lower"
               /\ (channel.Direction = "up"
                   \/ (channel.Direction = "flat" /\ QGt(trendStrength.Overall, R(60))))
            THEN TradingSignal("channel_bounce", "buy", confidence, currentPrice,
                               QMul(lowerPrice, Q(99, 100)), middlePrice, currentTime)
            ELSE IF channel.CurrentPos = "upper"
               /\ (channel.Direction = "down"
                   \/ (channel.Direction = "flat" /\ QLt(trendStrength.Overall, R(40))))
            THEN TradingSignal("channel_bounce", "sell", confidence, currentPrice,
                               QMul(upperPrice, Q(101, 100)), middlePrice, currentTime)
            ELSE IF channel.CurrentPos = "break"
               /\ QGt(currentPrice, QMul(upperPrice, Q(101, 100)))
               /\ channel.Direction = "up"
            THEN TradingSignal("channel_breakout", "buy", QMul(confidence, Q(9, 10)),
                               currentPrice, upperPrice,
                               QMul(currentPrice, Q(105, 100)), currentTime)
            ELSE IF channel.CurrentPos = "break"
               /\ QLt(currentPrice, QMul(lowerPrice, Q(99, 100)))
               /\ channel.Direction = "down"
            THEN TradingSignal("channel_breakout", "sell", QMul(confidence, Q(9, 10)),
                               currentPrice, lowerPrice,
                               QMul(currentPrice, Q(95, 100)), currentTime)
            ELSE Nil
    IN  IF signal = Nil THEN Nil
        ELSE LET rr == calculateRiskReward(signal)
             IN  [signal EXCEPT
                    !.RiskReward = rr,
                    !.Confidence =
                        IF QLt(rr, dowConfig.SignalConfig.RiskRewardMin)
                        THEN QMul(signal.Confidence, Q(7, 10))
                        ELSE signal.Confidence]

breakoutOfLine(klines, currentPrice, line, currentTime) ==
    LET expectedPrice == LineAt(line, currentTime)
        breakoutStrength == QDiv(abs(QSub(currentPrice, expectedPrice)), expectedPrice)
        confidence == QMul(line.Strength, R(15))
        signal ==
            IF ~QGt(breakoutStrength, dowConfig.SignalConfig.BreakoutStrength) THEN Nil
            ELSE IF line.Type = "support"
                    /\ QLt(currentPrice, QMul(expectedPrice, Q(99, 100)))
            THEN TradingSignal("channel_breakout", "sell", confidence, currentPrice,
                               expectedPrice, QMul(currentPrice, Q(97, 100)), currentTime)
            ELSE IF line.Type = "resistance"
                    /\ QGt(currentPrice, QMul(expectedPrice, Q(101, 100)))
            THEN TradingSignal("channel_breakout", "buy", confidence, currentPrice,
                               expectedPrice, QMul(currentPrice, Q(103, 100)), currentTime)
            ELSE Nil
    IN  IF signal = Nil THEN Nil
        ELSE [signal EXCEPT
                !.RiskReward = calculateRiskReward(signal),
                !.Confidence =
                    IF dowConfig.SignalConfig.VolumeConfirmation
                    THEN QMul(signal.Confidence, confirmWithVolume(klines))
                    ELSE signal.Confidence]

RECURSIVE breakoutFrom(_, _, _, _, _)
breakoutFrom(klines, currentPrice, trendLines, i, currentTime) ==
    IF i > Len(trendLines) THEN Nil
    ELSE IF QLt(trendLines[i].Strength, R(3))
    THEN breakoutFrom(klines, currentPrice, trendLines, i + 1, currentTime)
    ELSE LET signal == breakoutOfLine(klines, currentPrice, trendLines[i], currentTime)
         IN  IF signal # Nil THEN signal
             ELSE breakoutFrom(klines, currentPrice, trendLines, i + 1, currentTime)

generateBreakoutSignal(klines, currentPrice, trendLines, currentTime) ==
    IF Len(trendLines) = 0 \/ Len(klines) < 5 THEN Nil
    ELSE breakoutFrom(klines, currentPrice, trendLines, 1, currentTime)

generateTrendFollowingSignal(currentPrice, trendStrength, channel, currentTime) ==
    IF trendStrength.Quality # "strong" \/ QLt(trendStrength.Overall, R(70)) THEN Nil
    ELSE
    LET confidence == QMul(trendStrength.Overall, Q(8, 10))
        middlePrice == LineAt(channel.MiddleLine, currentTime)
        signal ==
            IF trendStrength.Direction = "up" /\ QGt(trendStrength.Consistency, R(70))
            THEN IF channel = Nil \/ QLt(currentPrice, QMul(middlePrice, Q(102, 100)))
                 THEN TradingSignal("trend_following", "buy", confidence, currentPrice,
                                    QMul(currentPrice, Q(97, 100)),
                                    QMul(currentPrice, Q(105, 100)), currentTime)
                 ELSE Nil
            ELSE IF trendStrength.Direction = "down"
                    /\ QGt(trendStrength.Consistency, R(70))
            THEN IF channel = Nil \/ QGt(currentPrice, QMul(middlePrice, Q(98, 100)))
                 THEN TradingSignal("trend_following", "sell", confidence, currentPrice,
                                    QMul(currentPrice, Q(103, 100)),
                                    QMul(currentPrice, Q(95, 100)), currentTime)
                 ELSE Nil
            ELSE Nil
    IN  IF signal = Nil THEN Nil
        ELSE [signal EXCEPT !.RiskReward = calculateRiskReward(signal)]

HoldSignal(confidence, ts) ==
    TradingSignal("", "hold", confidence, Zero, Zero, Zero, ts)

generateTradingSignal(klines3m, currentPrice, channel, trendStrength, trendLines, now) ==
    IF Len(klines3m) = 0 \/ trendStrength = Nil THEN HoldSignal(Zero, now)
    ELSE
    LET minConf == dowConfig.SignalConfig.MinConfidence
        channelSignal ==
            IF channel # Nil
               /\ QGt(channel.Quality, dowConfig.ChannelConfig.QualityThreshold)
            THEN generateChannelSignal(currentPrice, channel, trendStrength, now)
            ELSE Nil
        breakoutSignal == generateBreakoutSignal(klines3m, currentPrice, trendLines, now)
        trendSignal ==
            generateTrendFollowingSignal(currentPrice, trendStrength, channel, now)
    IN  IF channelSignal # Nil /\ QGe(channelSignal.Confidence, minConf)
        THEN channelSignal
        ELSE IF breakoutSignal # Nil /\ QGe(breakoutSignal.Confidence, minConf)
        THEN breakoutSignal
        ELSE IF trendSignal # Nil /\ QGe(trendSignal.Confidence, minConf)
        THEN trendSignal
        ELSE HoldSignal(R(50), now)

-----------------------------------------------------------------------------
(* Dow theory analyzer: Analyze *)

\* wall-clock reading (ms) at which the analysis runs
BaseTime == 10000000

\* the comprehensive analyzer is not constructed
CaIdle ==
    /\ config = Nil /\ req = Nil /\ pc = "idle" /\ result = Nil
    /\ allSignals = <<>> /\ fusedSignals = <<>> /\ fuseTrace = <<>>
    /\ fuseGroups = <<>>

\* no window is under supply/demand analysis
SDIdle ==
    /\ sdKlines = <<>> /\ sdInterval = 0 /\ sdAppended = 0
    /\ sdResult = Nil /\ sdPrevious = Nil

\* no window is under FVG analysis
FVGIdle ==
    /\ fvgKlines = <<>> /\ fvgAppended = 0 /\ fvgResult = Nil /\ fvgPrevious = Nil

\* no window is under Fibonacci analysis
FibIdle == fibKlines = <<>> /\ fibAppended = 0 /\ fibResult = Nil

\* no VPVR analyzer is constructed
VPIdle == vpKlines = <<>> /\ vpConfig = Nil /\ vpAppended = 0 /\ vpProfile = Nil

\* no channel analysis is under way
ChannelIdle == channelReq = Nil /\ channelData = Nil /\ pcChannel = "idle"

assessTrendStrength(enough4h, measured) ==
    IF ~enough4h
    THEN [Overall |-> Zero, Direction |-> "flat", Quality |-> "weak",
          Consistency |-> Zero]
    ELSE measured

DowAnalyzeResult(dreq) ==
    LET channel == buildParallelChannel(dreq.trendLines, dreq.constructed, dreq.rest,
                                        dreq.currentPrice, dreq.now)
        trendStrength == assessTrendStrength(dreq.enough4h, dreq.measured)
    IN  [Channel |-> channel,
         TrendStrength |-> trendStrength,
         TradingSignal |->
             generateTradingSignal(dreq.klines3m, dreq.currentPrice, channel,
                                   trendStrength, dreq.trendLines, dreq.now)]

Line(type, slope, priceNow, strength) ==
    [Type |-> type, Slope |-> slope,
     Intercept |-> QSub(R(priceNow), QMul(slope, R(BaseTime))),
     Strength |-> strength]

SlopeUp == Q(2, 1000)
SlopeDown == Q(-2, 1000)
SlopeFlat == Q(5, 10000)

\* trend lines (strongest first) with the line constructParallelLine would find;
\* the last case holds two support lines, through two rows of swing lows
TrendLineCases ==
    {[lines |-> <<>>, constructed |-> Nil],
     [lines |-> <<Line("support", SlopeUp, 100, R(5)),
                  Line("resistance", SlopeUp, 110, R(4))>>, constructed |-> Nil],
     [lines |-> <<Line("resistance", SlopeDown, 110, R(5)),
                  Line("support", SlopeDown, 100, R(4))>>, constructed |-> Nil],
     [lines |-> <<Line("support", SlopeFlat, 100, R(5)),
                  Line("resistance", SlopeFlat, 110, R(4))>>, constructed |-> Nil],
     [lines |-> <<Line("resistance", SlopeFlat, 100, R(5))>>, constructed |-> Nil],
     [lines |-> <<Line("support", SlopeFlat, 100, Q(5, 2))>>,
      constructed |-> Line("resistance", SlopeFlat, 110, Zero)],
     [lines |-> <<Line("support", SlopeUp, 100, R(5)),
                  Line("resistance", SlopeDown, 110, R(4))>>, constructed |-> Nil],
     [lines |-> <<Line("support", SlopeUp, 100, R(5)),
                  Line("support", SlopeUp, 95, R(4))>>, constructed |-> Nil]}

TrendStrengthCases ==
    {[Overall |-> Q(175, 2), Direction |-> "up", Quality |-> "strong",
      Consistency |-> R(80)],
     [Overall |-> Q(175, 2), Direction |-> "down", Quality |-> "strong",
      Consistency |-> R(80)],
     [Overall |-> R(65), Direction |-> "flat", Quality |-> "moderate",
      Consistency |-> R(50)]}

\* 3m windows, as volumes: none, five bars, eleven bars with a volume spike,
\* eleven bars of even volume
Klines3mCases ==
    {<<>>,
     <<10, 10, 10, 10, 10>>,
     <<10, 10, 10, 10, 10, 10, 10, 10, 10, 10, 30>>,
     <<10, 10, 10, 10, 10, 10, 10, 10, 10, 10, 10>>}

DowPrices == {98, 102, 105, 108, 112}

DowRequests ==
    {[klines3m |-> k, enough4h |-> e, currentPrice |-> R(p),
      trendLines |-> tl.lines, constructed |-> tl.constructed, rest |-> q,
      measured |-> ts, now |-> BaseTime] :
        k \in Klines3mCases, e \in BOOLEAN, p \in DowPrices,
        tl \in TrendLineCases, q \in {Q(1, 5), Q(1, 2)},
        ts \in TrendStrengthCases}

DowInit ==
    /\ dowReq \in DowRequests
    /\ tradingSignal = Nil
    /\ pcDow = "ready"
    /\ CaIdle
    /\ SDIdle
    /\ FVGIdle
    /\ FibIdle
    /\ VPIdle
    /\ ChannelIdle

DowAnalyze ==
    /\ pcDow = "ready"
    /\ tradingSignal' = DowAnalyzeResult(dowReq).TradingSignal
    /\ pcDow' = "done"
    /\ UNCHANGED <<dowReq, caVars, sdVars, fvgVars, fibVars, vpVars, chVars>>

DowNext == DowAnalyze

SpecDow == DowInit /\ [][DowNext]_vars

-----------------------------------------------------------------------------
(* VPVR analyzer: signals of a volume profile *)

generatePOCSignal(profile, currentPrice, timestamp) ==
    LET poc == profile.POC
        distance == QDiv(abs(QSub(currentPrice, poc.Price)), poc.Price)
        strength == QMul(QDiv(poc.Volume, profile.TotalVolume), R(100))
    IN  IF QLt(distance, Q(1, 100))
        THEN [Type |-> "poc_test",
              Action |-> IF QGt(poc.BuyVolume, QMul(poc.SellVolume, Q(12, 10)))
                         THEN "buy"
                         ELSE IF QGt(poc.SellVolume, QMul(poc.BuyVolume, Q(12, 10)))
                         THEN "sell"
                         ELSE "hold",
              Strength |-> strength,
              Confidence |-> min(QMul(strength, R(2)), R(100)),
              Timestamp |-> timestamp]
        ELSE Nil

generateValueAreaSignal(profile, currentPrice, timestamp) ==
    IF profile.ValueArea = Nil THEN Nil
    ELSE
    LET vah == profile.VAH
        val == profile.VAL
        centerPrice == QDiv(QAdd(vah, val), R(2))
        distanceFromCenter == QDiv(abs(QSub(currentPrice, centerPrice)), centerPrice)
        breakoutConfidence ==
            QAdd(R(70), QMul(profile.ValueArea.Concentration, R(10)))
    IN  IF QGt(currentPrice, QMul(vah, Q(1005, 1000)))
        THEN [Type |-> "va_breakout", Action |-> "buy",
              Strength |-> QMul(QDiv(QSub(currentPrice, vah), vah), R(100)),
              Confidence |-> breakoutConfidence, Timestamp |-> timestamp]
        ELSE IF QLt(currentPrice, QMul(val, Q(995, 1000)))
        THEN [Type |-> "va_breakout", Action |-> "sell",
              Strength |-> QMul(QDiv(QSub(val, currentPrice), val), R(100)),
              Confidence |-> breakoutConfidence, Timestamp |-> timestamp]
        ELSE IF QGt(currentPrice, val) /\ QLt(currentPrice, vah)
        THEN [Type |-> "va_return", Action |-> "hold",
              Strength |-> QMul(QSub(R(1), distanceFromCenter), R(100)),
              Confidence |-> QSub(R(60), QMul(distanceFromCenter, R(100))),
              Timestamp |-> timestamp]
        ELSE Nil

\* first level at minimal distance from the price (strict < keeps the first)
RECURSIVE nearestLevelFrom(_, _, _, _)
nearestLevelFrom(levels, currentPrice, i, best) ==
    IF i > Len(levels) THEN best
    ELSE IF best = Nil
            \/ QLt(abs(QSub(levels[i].Price, currentPrice)),
                   abs(QSub(best.Price, currentPrice)))
    THEN nearestLevelFrom(levels, currentPrice, i + 1, levels[i])
    ELSE nearestLevelFrom(levels, currentPrice, i + 1, best)

generateVolumeSignal(profile, currentPrice, timestamp) ==
    LET nearestLevel == nearestLevelFrom(profile.Levels, currentPrice, 1, Nil)
    IN  IF nearestLevel = Nil THEN Nil
        ELSE
        LET avgVolume == QDiv(profile.TotalVolume, R(Len(profile.Levels)))
            volumeRatio == QDiv(nearestLevel.Volume, avgVolume)
        IN  IF QGt(volumeRatio, R(2))
            THEN [Type |-> "high_volume",
                  Action |->
                      IF QGt(nearestLevel.BuyVolume,
                             QMul(nearestLevel.SellVolume, Q(13, 10)))
                      THEN "buy"
                      ELSE IF QGt(nearestLevel.SellVolume,
                                  QMul(nearestLevel.BuyVolume, Q(13, 10)))
                      THEN "sell"
                      ELSE "hold",
                  Strength |-> QMul(volumeRatio, R(20)),
                  Confidence |-> min(QMul(volumeRatio, R(25)), R(100)),
                  Timestamp |-> timestamp]
            ELSE IF QLt(volumeRatio, Q(3, 10))
            THEN [Type |-> "low_volume", Action |-> "hold",
                  Strength |-> QMul(QSub(R(1), volumeRatio), R(100)),
                  Confidence |-> R(50), Timestamp |-> timestamp]
            ELSE Nil

generateImbalanceSignal(profile, currentPrice, timestamp) ==
    LET ratio == profile.BuySellRatio
        imbalanceThreshold == Q(3, 2)
    IN  IF ratio = Zero THEN Nil
        ELSE IF QGt(ratio, imbalanceThreshold)
        THEN LET strength == QMul(QSub(ratio, R(1)), R(100))
             IN  [Type |-> "imbalance", Action |-> "buy",
                  Strength |-> min(strength, R(100)),
                  Confidence |-> min(QMul(strength, Q(3, 2)), R(100)),
                  Timestamp |-> timestamp]
        ELSE IF QLt(ratio, QDiv(R(1), imbalanceThreshold))
        THEN LET strength == QMul(QSub(QDiv(R(1), ratio), R(1)), R(100))
             IN  [Type |-> "imbalance", Action |-> "sell",
                  Strength |-> min(strength, R(100)),
                  Confidence |-> min(QMul(strength, Q(3, 2)), R(100)),
                  Timestamp |-> timestamp]
        ELSE Nil

\* the non-nil elements of a sequence of optional signals, in order
RECURSIVE NonNil(_)
NonNil(s) ==
    IF s = <<>> THEN <<>>
    ELSE IF Head(s) = Nil THEN NonNil(Tail(s))
    ELSE <<Head(s)>> \o NonNil(Tail(s))

VPVRGenerateSignals(profile, currentPrice, timestamp) ==
    IF profile = Nil \/ profile.POC = Nil THEN <<>>
    ELSE NonNil(<<generatePOCSignal(profile, currentPrice, timestamp),
                  generateValueAreaSignal(profile, currentPrice, timestamp),
                  generateVolumeSignal(profile, currentPrice, timestamp),
                  generateImbalanceSignal(profile, currentPrice, timestamp)>>)

-----------------------------------------------------------------------------
(* sort.Slice by Confidence, descending: an insertion sort for the short     *)
(* slices sorted here, so equal confidences keep their order                 *)

RECURSIVE insertByConfidence(_, _)
insertByConfidence(sorted, x) ==
    IF sorted = <<>> THEN <<x>>
    ELSE LET last == sorted[Len(sorted)]
         IN  IF QGt(x.Confidence, last.Confidence)
             THEN insertByConfidence(SubSeq(sorted, 1, Len(sorted) - 1), x) \o <<last>>
             ELSE sorted \o <<x>>

RECURSIVE sortPrefix(_, _)
sortPrefix(signals, n) ==
    IF n = 0 THEN <<>>
    ELSE insertByConfidence(sortPrefix(signals, n - 1), signals[n])

sortByConfidence(signals) == sortPrefix(signals, Len(signals))

-----------------------------------------------------------------------------
(* Supply/demand analyzer: signals of the active zones *)

calculateDistanceToZone(zone, currentPrice) ==
    IF QGe(currentPrice, zone.LowerBound) /\ QLe(currentPrice, zone.UpperBound)
    THEN Zero
    ELSE IF QGt(currentPrice, zone.UpperBound)
    THEN QDiv(QSub(currentPrice, zone.UpperBound), zone.UpperBound)
    ELSE QDiv(QSub(zone.LowerBound, currentPrice), zone.LowerBound)

\* risk := |entry - stopLoss|; reward := |takeProfit - entry|
riskRewardOf(entry, stopLoss, takeProfit) ==
    LET risk == abs(QSub(entry, stopLoss))
        reward == abs(QSub(takeProfit, entry))
    IN  IF QGt(risk, Zero) THEN QDiv(reward, risk) ELSE Zero

AnalyzerSignal(type, action, entry, stopLoss, takeProfit, confidence, strength, ts) ==
    [Type |-> type, Action |-> action, Entry |-> entry, StopLoss |-> stopLoss,
     TakeProfit |-> takeProfit,
     RiskReward |-> riskRewardOf(entry, stopLoss, takeProfit),
     Confidence |-> min(confidence, R(100)), Strength |-> strength,
     Timestamp |-> ts]

generateBounceSignal(zone, currentPrice, timestamp) ==
    LET confidence ==
            QAdd(QAdd(QMul(zone.Strength, Q(8, 10)),
                      IF zone.Quality = "strong" THEN R(10) ELSE Zero),
                 IF zone.Status = "fresh" THEN R(5) ELSE Zero)
    IN  IF zone.Type = "supply"
        THEN AnalyzerSignal("zone_bounce", "sell", currentPrice,
                            QMul(zone.UpperBound, Q(101, 100)),
                            QSub(currentPrice, QMul(zone.Width, R(2))),
                            confidence, zone.Strength, timestamp)
        ELSE AnalyzerSignal("zone_bounce", "buy", currentPrice,
                            QMul(zone.LowerBound, Q(99, 100)),
                            QAdd(currentPrice, QMul(zone.Width, R(2))),
                            confidence, zone.Strength, timestamp)

SDgenerateEntrySignal(zone, currentPrice, timestamp, distance) ==
    LET confidence ==
            QAdd(QMul(QMul(zone.Strength, QSub(R(1), QDiv(distance, Q(5, 100)))),
                      Q(7, 10)),
                 IF zone.Quality = "strong" THEN R(8) ELSE Zero)
    IN  IF zone.Type = "supply"
        THEN IF QGt(currentPrice, zone.UpperBound)
             THEN AnalyzerSignal("zone_entry", "sell", zone.UpperBound,
                                 QMul(zone.UpperBound, Q(102, 100)), zone.LowerBound,
                                 confidence, zone.Strength, timestamp)
             ELSE Nil
        ELSE IF QLt(currentPrice, zone.LowerBound)
             THEN AnalyzerSignal("zone_entry", "buy", zone.LowerBound,
                                 QMul(zone.LowerBound, Q(98, 100)), zone.UpperBound,
                                 confidence, zone.Strength, timestamp)
             ELSE Nil

generateZoneSignal(zone, currentPrice, timestamp) ==
    LET distanceToZone == calculateDistanceToZone(zone, currentPrice)
        inZone == QGe(currentPrice, zone.LowerBound)
                  /\ QLe(currentPrice, zone.UpperBound)
    IN  IF QGt(distanceToZone, Q(5, 100)) THEN Nil
        ELSE IF inZone THEN generateBounceSignal(zone, currentPrice, timestamp)
        ELSE SDgenerateEntrySignal(zone, currentPrice, timestamp, distanceToZone)

\* the latest-created fresh-pattern zone that is still fresh and not weak
RECURSIVE latestFreshZone(_, _, _, _)
latestFreshZone(zones, i, freshZone, latestTime) ==
    IF i > Len(zones) THEN freshZone
    ELSE IF zones[i].PatternType \in {"fresh_supply", "fresh_demand"}
            /\ zones[i].Status = "fresh"
            /\ zones[i].Quality # "weak"
            /\ zones[i].CreationTime > latestTime
    THEN latestFreshZone(zones, i + 1, zones[i], zones[i].CreationTime)
    ELSE latestFreshZone(zones, i + 1, freshZone, latestTime)

generateFreshZoneSignal(activeZones, currentPrice, timestamp) ==
    LET freshZone == latestFreshZone(activeZones, 1, Nil, 0)
    IN  IF freshZone = Nil THEN Nil
        ELSE IF QGt(calculateDistanceToZone(freshZone, currentPrice), Q(3, 100))
        THEN Nil
        ELSE
        LET confidence == QAdd(QMul(freshZone.Strength, Q(9, 10)), R(15))
        IN  IF freshZone.Type = "supply"
            THEN AnalyzerSignal("fresh_zone", "sell", freshZone.CenterPrice,
                                QMul(freshZone.UpperBound, Q(1015, 1000)),
                                QSub(currentPrice, QMul(freshZone.Width, Q(3, 2))),
                                confidence, freshZone.Strength, timestamp)
            ELSE AnalyzerSignal("fresh_zone", "buy", freshZone.CenterPrice,
                                QMul(freshZone.LowerBound, Q(985, 1000)),
                                QAdd(currentPrice, QMul(freshZone.Width, Q(3, 2))),
                                confidence, freshZone.Strength, timestamp)

RECURSIVE zoneSignalsFrom(_, _, _, _)
zoneSignalsFrom(zones, i, currentPrice, timestamp) ==
    IF i > Len(zones) THEN <<>>
    ELSE LET signal == generateZoneSignal(zones[i], currentPrice, timestamp)
         IN  (IF signal = Nil THEN <<>> ELSE <<signal>>)
             \o zoneSignalsFrom(zones, i + 1, currentPrice, timestamp)

SDGenerateSignals(sdData, currentPrice, timestamp) ==
    IF sdData = Nil THEN <<>>
    ELSE sortByConfidence(
             zoneSignalsFrom(sdData.ActiveZones, 1, currentPrice, timestamp)
             \o NonNil(<<generateFreshZoneSignal(sdData.ActiveZones, currentPrice,
                                                 timestamp)>>))

-----------------------------------------------------------------------------
(* FVG analyzer: signals of the active gaps *)

calculateDistanceToFVG(gap, currentPrice) ==
    IF QGe(currentPrice, gap.LowerBound) /\ QLe(currentPrice, gap.UpperBound)
    THEN Zero
    ELSE IF QGt(currentPrice, gap.UpperBound)
    THEN QDiv(QSub(currentPrice, gap.UpperBound), gap.UpperBound)
    ELSE QDiv(QSub(gap.LowerBound, currentPrice), gap.LowerBound)

generateReactionSignal(gap, currentPrice, timestamp) ==
    LET confidence ==
            QAdd(QAdd(QAdd(QMul(gap.Strength, Q(9, 10)),
                           IF gap.Quality = "high" THEN R(10) ELSE Zero),
                      IF gap.TouchCount = 0 THEN R(5) ELSE Zero),
                 IF gap.Validation # Nil /\ gap.Validation.VolumeValidation
                 THEN R(5) ELSE Zero)
    IN  IF gap.Type = "bullish"
        THEN AnalyzerSignal("fvg_reaction", "buy", currentPrice,
                            QMul(gap.LowerBound, Q(995, 1000)),
                            QAdd(currentPrice, QMul(gap.Width, R(2))),
                            confidence, gap.Strength, timestamp)
        ELSE AnalyzerSignal("fvg_reaction", "sell", currentPrice,
                            QMul(gap.UpperBound, Q(1005, 1000)),
                            QSub(currentPrice, QMul(gap.Width, R(2))),
                            confidence, gap.Strength, timestamp)

FVGgenerateEntrySignal(gap, currentPrice, timestamp, distance) ==
    LET confidence ==
            QAdd(QMul(QMul(gap.Strength, QSub(R(1), QDiv(distance, Q(1, 100)))),
                      Q(8, 10)),
                 IF gap.Quality = "high" THEN R(8) ELSE Zero)
    IN  IF gap.Type = "bullish"
        THEN IF QGt(currentPrice, gap.UpperBound)
             THEN AnalyzerSignal("fvg_fill_entry", "buy", gap.CenterPrice,
                                 QMul(gap.LowerBound, Q(995, 1000)),
                                 QAdd(currentPrice, QMul(gap.Width, Q(3, 2))),
                                 confidence, gap.Strength, timestamp)
             ELSE Nil
        ELSE IF QLt(currentPrice, gap.LowerBound)
             THEN AnalyzerSignal("fvg_fill_entry", "sell", gap.CenterPrice,
                                 QMul(gap.UpperBound, Q(1005, 1000)),
                                 QSub(currentPrice, QMul(gap.Width, Q(3, 2))),
                                 confidence, gap.Strength, timestamp)
             ELSE Nil

generateRejectionSignal(gap, currentPrice, timestamp) ==
    IF gap.TouchCount < 2 \/ QGt(gap.FillProgress, R(30)) THEN Nil
    ELSE IF gap.Validation = Nil \/ ~gap.Validation.HasReaction
            \/ QLt(gap.Validation.ReactionStrength, Q(2, 100))
    THEN Nil
    ELSE IF ~QLt(calculateDistanceToFVG(gap, currentPrice), Q(5, 1000)) THEN Nil
    ELSE
    LET confidence == QAdd(QMul(gap.Strength, Q(85, 100)),
                           QMul(gap.Validation.ReactionStrength, R(100)))
    IN  IF gap.Type = "bullish"
        THEN AnalyzerSignal("fvg_rejection", "buy", gap.LowerBound,
                            QMul(gap.LowerBound, Q(99, 100)),
                            QAdd(gap.UpperBound, gap.Width),
                            confidence, gap.Strength, timestamp)
        ELSE AnalyzerSignal("fvg_rejection", "sell", gap.UpperBound,
                            QMul(gap.UpperBound, Q(101, 100)),
                            QSub(gap.LowerBound, gap.Width),
                            confidence, gap.Strength, timestamp)

generateFVGSignal(gap, currentPrice, timestamp) ==
    LET distanceToFVG == calculateDistanceToFVG(gap, currentPrice)
        inFVG == QGe(currentPrice, gap.LowerBound) /\ QLe(currentPrice, gap.UpperBound)
        signal == IF inFVG THEN generateReactionSignal(gap, currentPrice, timestamp)
                  ELSE IF QLt(distanceToFVG, Q(1, 100))
                  THEN FVGgenerateEntrySignal(gap, currentPrice, timestamp,
                                              distanceToFVG)
                  ELSE Nil
    IN  IF signal = Nil THEN generateRejectionSignal(gap, currentPrice, timestamp)
        ELSE signal

RECURSIVE gapSignalsFrom(_, _, _, _)
gapSignalsFrom(gaps, i, currentPrice, timestamp) ==
    IF i > Len(gaps) THEN <<>>
    ELSE LET signal == generateFVGSignal(gaps[i], currentPrice, timestamp)
         IN  (IF signal = Nil THEN <<>> ELSE <<signal>>)
             \o gapSignalsFrom(gaps, i + 1, currentPrice, timestamp)

FVGGenerateSignals(fvgData, currentPrice, timestamp) ==
    IF fvgData = Nil THEN <<>>
    ELSE sortByConfidence(gapSignalsFrom(fvgData.ActiveFVGs, 1, currentPrice,
                                         timestamp))

-----------------------------------------------------------------------------
(* Fibonacci analyzer: signals; their timestamps are time.Now().Unix(),     *)
(* seconds, where every other analyzer stamps milliseconds                  *)

FibSignal(type, action, entry, stopLoss, takeProfit, riskReward, confidence, strength, unixSeconds) ==
    [Type |-> type, Action |-> action, EntryPrice |-> entry,
     StopLoss |-> stopLoss, TakeProfit |-> takeProfit, RiskReward |-> riskReward,
     Confidence |-> confidence, Strength |-> strength, Timestamp |-> unixSeconds]

generateGoldenPocketSignal(goldenPocket, currentPrice, unixSeconds) ==
    IF ~goldenPocket.IsActive THEN Nil
    ELSE IF ~(QGe(currentPrice, goldenPocket.Low) /\ QLe(currentPrice, goldenPocket.High))
    THEN Nil
    ELSE
    LET up == goldenPocket.TrendContext = "upward"
        stopLoss == IF up THEN QMul(goldenPocket.Low, Q(99, 100))
                    ELSE QMul(goldenPocket.High, Q(101, 100))
        takeProfit == IF up THEN <<QMul(goldenPocket.High, Q(105, 100)),
                                   QMul(goldenPocket.High, Q(11, 10))>>
                      ELSE <<QMul(goldenPocket.Low, Q(95, 100)),
                             QMul(goldenPocket.Low, Q(9, 10))>>
    IN  FibSignal("golden_pocket", IF up THEN "buy" ELSE "sell", currentPrice,
                  stopLoss, takeProfit,
                  QDiv(abs(QSub(takeProfit[1], currentPrice)),
                       abs(QSub(currentPrice, stopLoss))),
                  goldenPocket.Strength, goldenPocket.Strength, unixSeconds)

RECURSIVE levelSignalsFrom(_, _, _, _)
levelSignalsFrom(retracement, i, currentPrice, unixSeconds) ==
    IF i > Len(retracement.Levels) THEN <<>>
    ELSE
    LET level == retracement.Levels[i]
        priceDistance == QDiv(abs(QSub(currentPrice, level.Price)), level.Price)
        rest == levelSignalsFrom(retracement, i + 1, currentPrice, unixSeconds)
    IN  IF QGt(priceDistance, Q(2, 1000)) \/ QLt(level.Importance, Q(7, 10))
        THEN rest
        ELSE <<FibSignal("bounce",
                         IF retracement.TrendType = "upward" THEN "buy" ELSE "sell",
                         level.Price, Zero, <<>>, Zero,
                         QMul(retracement.Strength, level.Importance),
                         QMul(level.Importance, R(100)), unixSeconds)>> \o rest

generateLevelSignals(retracement, currentPrice, unixSeconds) ==
    levelSignalsFrom(retracement, 1, currentPrice, unixSeconds)

generateClusterSignal(cluster, currentPrice, unixSeconds) ==
    IF QLt(currentPrice, cluster.Low) \/ QGt(currentPrice, cluster.High) THEN Nil
    ELSE IF QLt(cluster.Importance, R(60)) THEN Nil
    ELSE FibSignal("cluster", "hold", cluster.CenterPrice, Zero, <<>>, Zero,
                   cluster.Importance, QMul(cluster.Density, R(10)), unixSeconds)

RECURSIVE retracementSignalsFrom(_, _, _, _)
retracementSignalsFrom(retracements, i, currentPrice, unixSeconds) ==
    IF i > Len(retracements) THEN <<>>
    ELSE (IF retracements[i].IsActive
          THEN generateLevelSignals(retracements[i], currentPrice, unixSeconds)
          ELSE <<>>)
         \o retracementSignalsFrom(retracements, i + 1, currentPrice, unixSeconds)

RECURSIVE clusterSignalsFrom(_, _, _, _)
clusterSignalsFrom(clusters, i, currentPrice, unixSeconds) ==
    IF i > Len(clusters) THEN <<>>
    ELSE NonNil(<<generateClusterSignal(clusters[i], currentPrice, unixSeconds)>>)
         \o clusterSignalsFrom(clusters, i + 1, currentPrice, unixSeconds)

FibGenerateSignals(fibData, currentPrice, unixSeconds) ==
    (IF fibData.GoldenPocket # Nil /\ fibData.GoldenPocket.IsActive
     THEN NonNil(<<generateGoldenPocketSignal(fibData.GoldenPocket, currentPrice,
                                              unixSeconds)>>)
     ELSE <<>>)
    \o retracementSignalsFrom(fibData.Retracements, 1, currentPrice, unixSeconds)
    \o clusterSignalsFrom(fibData.Clusters, 1, currentPrice, unixSeconds)

-----------------------------------------------------------------------------
(* Comprehensive analyzer: collecting the analyzers' signals *)

defaultComprehensiveConfig ==
    [EnableDowTheory |-> TRUE, EnableVPVR |-> TRUE, EnableSupplyDemand |-> TRUE,
     EnableFVG |-> TRUE, EnableFibonacci |-> TRUE,
     WeightDowTheory |-> Q(25, 100), WeightVPVR |-> Q(2, 10),
     WeightSupplyDemand |-> Q(2, 10), WeightFVG |-> Q(15, 100),
     WeightFibonacci |-> Q(2, 10),
     MinConfidence |-> R(60), MaxSignals |-> 6]

priorityOf(confidence) ==
    IF QGe(confidence, R(80)) THEN "high"
    ELSE IF QGe(confidence, R(60)) THEN "medium"
    ELSE "low"

\* the k-th time.Now().UnixNano() reading of a collector's loop: a coarse
\* clock returns the same reading throughout
nanoReading(coarseClock, k) == IF coarseClock THEN 0 ELSE k

UnifiedSignal(id, action, entry, stopLoss, takeProfit, riskReward, confidence, strength, source, weight, priority, timestamp) ==
    [ID |-> id, Action |-> action, Entry |-> entry, StopLoss |-> stopLoss,
     TakeProfit |-> takeProfit, RiskReward |-> riskReward,
     Confidence |-> confidence, Strength |-> strength,
     Sources |-> <<[Source |-> source, Weight |-> weight,
                    Confidence |-> confidence]>>,
     Priority |-> priority, Timestamp |-> timestamp]

\* the unified signal a collector builds from one analyzer signal
unifyDowSignal(cfg, signal, coarseClock) ==
    UnifiedSignal(<<"dow", nanoReading(coarseClock, 1)>>, signal.Action,
                  signal.Entry, signal.StopLoss, signal.TakeProfit,
                  signal.RiskReward, signal.Confidence, Zero,
                  "dow_theory", cfg.WeightDowTheory,
                  priorityOf(signal.Confidence), signal.Timestamp)

collectDowTheorySignals(cfg, dowData, coarseClock) ==
    IF dowData = Nil \/ dowData.TradingSignal = Nil THEN <<>>
    ELSE <<unifyDowSignal(cfg, dowData.TradingSignal, coarseClock)>>

unifyVPVRSignal(cfg, signal, currentPrice, k, coarseClock) ==
    UnifiedSignal(<<"vpvr", nanoReading(coarseClock, k)>>,
                  signal.Action, currentPrice, Zero, Zero, Zero,
                  signal.Confidence, Zero, "vpvr", cfg.WeightVPVR,
                  priorityOf(signal.Confidence), signal.Timestamp)

unifyVPVRSignals(cfg, vpvrSignals, currentPrice, coarseClock) ==
    [k \in 1..Len(vpvrSignals) |->
        unifyVPVRSignal(cfg, vpvrSignals[k], currentPrice, k, coarseClock)]

collectVPVRSignals(cfg, vpData, currentPrice, now, coarseClock) ==
    IF vpData = Nil THEN <<>>
    ELSE unifyVPVRSignals(cfg, VPVRGenerateSignals(vpData, currentPrice, now),
                          currentPrice, coarseClock)

\* supply/demand and FVG signals carry the same fields
unifyAnalyzerSignal(prefix, source, weight, signal, k, coarseClock) ==
    UnifiedSignal(<<prefix, nanoReading(coarseClock, k)>>,
                  signal.Action, signal.Entry, signal.StopLoss,
                  signal.TakeProfit, signal.RiskReward,
                  signal.Confidence, signal.Strength, source, weight,
                  priorityOf(signal.Confidence), signal.Timestamp)

unifyAnalyzerSignals(prefix, source, weight, signals, coarseClock) ==
    [k \in 1..Len(signals) |->
        unifyAnalyzerSignal(prefix, source, weight, signals[k], k, coarseClock)]

collectSupplyDemandSignals(cfg, sdData, currentPrice, now, coarseClock) ==
    IF sdData = Nil THEN <<>>
    ELSE unifyAnalyzerSignals("sd", "supply_demand", cfg.WeightSupplyDemand,
                              SDGenerateSignals(sdData, currentPrice, now),
                              coarseClock)

collectFVGSignals(cfg, fvgData, currentPrice, now, coarseClock) ==
    IF fvgData = Nil THEN <<>>
    ELSE unifyAnalyzerSignals("fvg", "fvg", cfg.WeightFVG,
                              FVGGenerateSignals(fvgData, currentPrice, now),
                              coarseClock)

unifyFibSignal(cfg, signal, k, coarseClock) ==
    UnifiedSignal(<<"fib", nanoReading(coarseClock, k)>>,
                  signal.Action, signal.EntryPrice, signal.StopLoss,
                  IF Len(signal.TakeProfit) > 0 THEN signal.TakeProfit[1] ELSE Zero,
                  signal.RiskReward, signal.Confidence,
                  signal.Strength, "fibonacci", cfg.WeightFibonacci,
                  IF signal.Type = "golden_pocket"
                  THEN IF QGe(signal.Confidence, R(70)) THEN "high" ELSE "medium"
                  ELSE priorityOf(signal.Confidence),
                  signal.Timestamp)

unifyFibSignals(cfg, fibSignals, coarseClock) ==
    [k \in 1..Len(fibSignals) |-> unifyFibSignal(cfg, fibSignals[k], k, coarseClock)]

collectFibonacciSignals(cfg, fibData, currentPrice, now, coarseClock) ==
    IF fibData = Nil THEN <<>>
    ELSE unifyFibSignals(cfg, FibGenerateSignals(fibData, currentPrice, now \div 1000),
                         coarseClock)

-----------------------------------------------------------------------------
(* Comprehensive analyzer: fusion *)

\* abs(e1 - e2)/e1 > 0.05 in float64: x/0 is +Inf for x > 0 and NaN for 0/0,
\* and NaN > 0.05 is false
priceDiffExceeds(entry1, entry2) ==
    IF entry1 = Zero THEN entry2 # Zero
    ELSE QGt(QDiv(abs(QSub(entry1, entry2)), entry1), Q(5, 100))

\* variant without the time window
canFuseSignalsAnyTime(signal1, signal2) ==
    signal1.Action = signal2.Action
    /\ ~priceDiffExceeds(signal1.Entry, signal2.Entry)

canFuseSignals(signal1, signal2) ==
    IF signal1.Action # signal2.Action THEN FALSE
    ELSE IF priceDiffExceeds(signal1.Entry, signal2.Entry) THEN FALSE
    ELSE IF Abs(signal1.Timestamp - signal2.Timestamp) > 3600 * 1000 THEN FALSE
    ELSE TRUE

RECURSIVE sumWeights(_, _)
sumWeights(sources, i) ==
    IF i > Len(sources) THEN Zero
    ELSE QAdd(sources[i].Weight, sumWeights(sources, i + 1))

RECURSIVE sumWeightedEntry(_, _, _, _)
sumWeightedEntry(sources, i, targetEntry, sourceEntry) ==
    IF i > Len(sources) THEN Zero
    ELSE QAdd(IF sources[i].Source = "dow_theory"
              THEN QMul(targetEntry, sources[i].Weight)
              ELSE IF sources[i].Source \in {"vpvr", "supply_demand", "fvg",
                                             "fibonacci"}
              THEN QMul(sourceEntry, sources[i].Weight)
              ELSE Zero,
              sumWeightedEntry(sources, i + 1, targetEntry, sourceEntry))

mergeSignals(target, source) ==
    LET sources == target.Sources \o source.Sources
        totalWeight == sumWeights(sources, 1)
        weightedEntry == sumWeightedEntry(sources, 1, target.Entry, source.Entry)
        better == QGt(source.RiskReward, target.RiskReward)
    IN  [target EXCEPT
            !.Sources = sources,
            !.Entry = IF QGt(totalWeight, Zero)
                      THEN QDiv(weightedEntry, totalWeight) ELSE target.Entry,
            !.StopLoss = IF better THEN source.StopLoss ELSE target.StopLoss,
            !.TakeProfit = IF better THEN source.TakeProfit ELSE target.TakeProfit,
            !.RiskReward = IF better THEN source.RiskReward ELSE target.RiskReward,
            !.Strength = IF QGt(source.Strength, target.Strength)
                         THEN source.Strength ELSE target.Strength]

RECURSIVE sumWeightedConfidence(_, _)
sumWeightedConfidence(sources, i) ==
    IF i > Len(sources) THEN Zero
    ELSE QAdd(QMul(sources[i].Confidence, sources[i].Weight),
              sumWeightedConfidence(sources, i + 1))

\* variant without the multi-source bonus
recalculateConfidenceNoBonus(signal) ==
    IF Len(signal.Sources) = 0 \/ ~QGt(sumWeights(signal.Sources, 1), Zero)
    THEN signal
    ELSE LET confidence == QDiv(sumWeightedConfidence(signal.Sources, 1),
                                sumWeights(signal.Sources, 1))
         IN  [signal EXCEPT !.Confidence = confidence,
                            !.Priority = priorityOf(confidence)]

recalculateConfidence(signal) ==
    IF Len(signal.Sources) = 0 THEN signal
    ELSE
    LET totalWeight == sumWeights(signal.Sources, 1)
        averaged == IF QGt(totalWeight, Zero)
                    THEN QDiv(sumWeightedConfidence(signal.Sources, 1), totalWeight)
                    ELSE signal.Confidence
        confidence == IF Len(signal.Sources) > 1
                      THEN min(QAdd(averaged, R((Len(signal.Sources) - 1) * 5)),
                               R(100))
                      ELSE averaged
    IN  [signal EXCEPT !.Confidence = confidence,
                       !.Priority = priorityOf(confidence)]

RECURSIVE fuseInner(_, _, _, _)
fuseInner(signals, i, j, st) ==
    IF j > Len(signals) THEN st
    ELSE IF signals[j].ID \in st.processed THEN fuseInner(signals, i, j + 1, st)
    ELSE
    LET can == canFuseSignals(signals[i], signals[j])
    IN  fuseInner(signals, i, j + 1,
            [fused |-> IF can THEN mergeSignals(st.fused, signals[j]) ELSE st.fused,
             processed |-> IF can THEN st.processed \cup {signals[j].ID}
                           ELSE st.processed,
             trace |-> Append(st.trace, <<i, j, can>>),
             group |-> IF can THEN Append(st.group, j) ELSE st.group])

RECURSIVE fuseOuter(_, _, _)
fuseOuter(signals, i, st) ==
    IF i > Len(signals) THEN st
    ELSE IF signals[i].ID \in st.processed THEN fuseOuter(signals, i + 1, st)
    ELSE
    LET inner == fuseInner(signals, i, i + 1,
                           [fused |-> signals[i], processed |-> st.processed,
                            trace |-> st.trace, group |-> <<i>>])
    IN  fuseOuter(signals, i + 1,
            [out |-> Append(st.out, recalculateConfidence(inner.fused)),
             processed |-> inner.processed \cup {signals[i].ID},
             trace |-> inner.trace,
             groups |-> Append(st.groups, inner.group)])

\* fuseSignals with the canFuseSignals calls it made and the merges it did
fuseRun(signals) ==
    IF Len(signals) <= 1
    THEN [out |-> signals, trace |-> <<>>,
          groups |-> [k \in 1..Len(signals) |-> <<k>>]]
    ELSE LET st == fuseOuter(signals, 1,
                             [out |-> <<>>, processed |-> {}, trace |-> <<>>,
                              groups |-> <<>>])
         IN  [out |-> st.out, trace |-> st.trace, groups |-> st.groups]

fuseSignals(signals) == fuseRun(signals).out

RECURSIVE filterMinConfidence(_, _)
filterMinConfidence(signals, minConfidence) ==
    IF signals = <<>> THEN <<>>
    ELSE (IF QGe(Head(signals).Confidence, minConfidence)
          THEN <<Head(signals)>> ELSE <<>>)
         \o filterMinConfidence(Tail(signals), minConfidence)

truncate(signals, maxSignals) ==
    IF Len(signals) > maxSignals THEN SubSeq(signals, 1, maxSignals) ELSE signals

\* variant that leaves the Fibonacci signals out
collectAllButFibonacci(cfg, res, currentPrice, now, coarseClock) ==
    collectDowTheorySignals(cfg, res.DowTheory, coarseClock)
    \o collectVPVRSignals(cfg, res.VolumeProfile, currentPrice, now, coarseClock)
    \o collectSupplyDemandSignals(cfg, res.SupplyDemand, currentPrice, now, coarseClock)
    \o collectFVGSignals(cfg, res.FairValueGaps, currentPrice, now, coarseClock)

collectAll(cfg, res, currentPrice, now, coarseClock) ==
    collectDowTheorySignals(cfg, res.DowTheory, coarseClock)
    \o collectVPVRSignals(cfg, res.VolumeProfile, currentPrice, now, coarseClock)
    \o collectSupplyDemandSignals(cfg, res.SupplyDemand, currentPrice, now, coarseClock)
    \o collectFVGSignals(cfg, res.FairValueGaps, currentPrice, now, coarseClock)
    \o collectFibonacciSignals(cfg, res.Fibonacci, currentPrice, now, coarseClock)

\* variant without the sort
generateUnifiedSignalsUnsorted(cfg, fused) ==
    truncate(filterMinConfidence(fused, cfg.MinConfidence), cfg.MaxSignals)

generateUnifiedSignals(cfg, fused) ==
    truncate(sortByConfidence(filterMinConfidence(fused, cfg.MinConfidence)),
             cfg.MaxSignals)

-----------------------------------------------------------------------------
(* Comprehensive analyzer: Analyze and UpdateConfig *)

Zone(type, lower, upper, strength, quality, status, pattern, created) ==
    [Type |-> type, UpperBound |-> upper, LowerBound |-> lower,
     CenterPrice |-> QDiv(QAdd(upper, lower), R(2)), Width |-> QSub(upper, lower),
     Strength |-> strength, Quality |-> quality, Status |-> status,
     PatternType |-> pattern, CreationTime |-> created]

Gap(type, lower, upper, strength, quality, touchCount, fillProgress, validation) ==
    [Type |-> type, UpperBound |-> upper, LowerBound |-> lower,
     CenterPrice |-> QDiv(QAdd(upper, lower), R(2)), Width |-> QSub(upper, lower),
     Strength |-> strength, Quality |-> quality, TouchCount |-> touchCount,
     FillProgress |-> fillProgress, Validation |-> validation]

Level(price, buyVolume, sellVolume) ==
    [Price |-> R(price), Volume |-> R(buyVolume + sellVolume),
     BuyVolume |-> R(buyVolume), SellVolume |-> R(sellVolume)]

\* a profile of three levels whose middle one is the POC
Profile(low, poc, high, val, vah, buySellRatio) ==
    [POC |-> poc, Levels |-> <<low, poc, high>>,
     TotalVolume |-> QAdd(QAdd(low.Volume, poc.Volume), high.Volume),
     VAH |-> R(vah), VAL |-> R(val),
     ValueArea |-> [Concentration |-> Q(1, 2)],
     BuySellRatio |-> buySellRatio]

\* price above the value area; price inside it, on a buy-heavy POC; price below
VolumeProfileCases ==
    {Profile(Level(95, 10, 10), Level(97, 25, 25), Level(99, 15, 15), 95, 99, R(1)),
     Profile(Level(97, 15, 5), Level(100, 30, 20), Level(103, 21, 9), 97, 103,
             Q(66, 34)),
     Profile(Level(102, 10, 10), Level(104, 25, 25), Level(106, 15, 15), 102, 106,
             R(1))}

\* a tested strong demand zone around the price; a demand zone above it; a
\* supply zone below it with a fresh demand zone around it.  SuccessRate is the
\* percentage of the window's zones that showed a reaction: all, none, half
SupplyDemandCases ==
    {[ActiveZones |->
        <<Zone("demand", R(99), R(101), Q(175, 2), "strong", "tested",
               "rally_base_rally", BaseTime - 7200000)>>,
      Statistics |-> [SuccessRate |-> R(100)]],
     [ActiveZones |->
        <<Zone("demand", R(102), R(104), R(100), "strong", "tested",
               "drop_base_rally", BaseTime - 7200000)>>,
      Statistics |-> [SuccessRate |-> Zero]],
     [ActiveZones |->
        <<Zone("supply", R(94), R(96), R(90), "strong", "tested",
               "drop_base_drop", BaseTime - 7200000),
          Zone("demand", R(99), R(101), R(70), "good", "fresh",
               "fresh_demand", BaseTime - 3600000)>>,
      Statistics |-> [SuccessRate |-> R(50)]]}

FVGCases ==
    {[ActiveFVGs |->
        <<Gap("bullish", Q(199, 2), Q(201, 2), R(60), "high", 1, R(10), Nil)>>],
     [ActiveFVGs |->
        <<Gap("bearish", Q(201, 2), Q(203, 2), R(90), "high", 2, R(10),
              [VolumeValidation |-> TRUE, HasReaction |-> TRUE,
               ReactionStrength |-> Q(3, 100)])>>]}

FibonacciCases ==
    {[GoldenPocket |-> [IsActive |-> TRUE, Low |-> R(99), High |-> R(101),
                        TrendContext |-> "upward", Strength |-> R(75)],
      Retracements |-> <<>>, Clusters |-> <<>>],
     [GoldenPocket |-> Nil,
      Retracements |->
          <<[IsActive |-> TRUE, TrendType |-> "downward", Strength |-> R(90),
             Levels |-> <<[Price |-> R(100), Importance |-> Q(8, 10)],
                          [Price |-> R(110), Importance |-> Q(9, 10)]>>]>>,
      Clusters |-> <<[Low |-> R(98), High |-> R(102), CenterPrice |-> R(100),
                      Importance |-> R(65), Density |-> R(3)]>>]}

CaDowBase ==
    [klines3m |-> <<10, 10, 10, 10, 10>>, enough4h |-> TRUE,
     currentPrice |-> R(100), trendLines |-> <<>>, constructed |-> Nil,
     rest |-> Q(1, 2), now |-> BaseTime,
     measured |-> [Overall |-> Q(175, 2), Direction |-> "up",
                   Quality |-> "strong", Consistency |-> R(80)]]

\* trend-following buy; trend-following sell; no 3m bars; a flat channel with
\* the price near its lower line
CaDowCases ==
    {CaDowBase,
     [CaDowBase EXCEPT !.measured.Direction = "down"],
     [CaDowBase EXCEPT !.klines3m = <<>>],
     [CaDowBase EXCEPT
        !.trendLines = <<Line("support", SlopeFlat, 98, R(5)),
                         Line("resistance", SlopeFlat, 108, R(4))>>,
        !.measured = [Overall |-> R(65), Direction |-> "flat",
                      Quality |-> "moderate", Consistency |-> R(50)]]}

\* lengths of the 4h window: enough for VPVR and FVG only, for all but Dow,
\* for every analyzer
Len4hCases == {12, 16, 25}

Requests ==
    {[currentPrice |-> R(100), now |-> BaseTime, len4h |-> n,
      coarseClock |-> cc, dow |-> d, vp |-> v, sd |-> z, fvg |-> g, fib |-> f] :
        n \in Len4hCases, cc \in BOOLEAN, d \in CaDowCases,
        v \in VolumeProfileCases \cup {Nil}, z \in SupplyDemandCases \cup {Nil},
        g \in FVGCases \cup {Nil}, f \in FibonacciCases \cup {Nil}}

ConfigCases ==
    {defaultComprehensiveConfig,
     [defaultComprehensiveConfig EXCEPT !.MinConfidence = R(75), !.MaxSignals = 1],
     [defaultComprehensiveConfig EXCEPT
        !.EnableFVG = FALSE, !.MaxSignals = 2,
        !.WeightDowTheory = Q(1, 2), !.WeightVPVR = Zero,
        !.WeightSupplyDemand = Q(1, 2), !.WeightFVG = Zero,
        !.WeightFibonacci = Zero, !.MinConfidence = R(50)],
     [defaultComprehensiveConfig EXCEPT
        !.WeightDowTheory = Zero, !.WeightVPVR = Zero,
        !.WeightSupplyDemand = Zero, !.WeightFVG = Zero,
        !.WeightFibonacci = Zero]}

DowIdle == dowReq = Nil /\ tradingSignal = Nil /\ pcDow = "idle"

Init ==
    /\ config = defaultComprehensiveConfig
    /\ req \in Requests
    /\ pc = "ready"
    /\ result = Nil
    /\ allSignals = <<>>
    /\ fusedSignals = <<>>
    /\ fuseTrace = <<>>
    /\ fuseGroups = <<>>
    /\ DowIdle
    /\ SDIdle
    /\ FVGIdle
    /\ FibIdle
    /\ VPIdle
    /\ ChannelIdle

\* calls are explored in the order UpdateConfig*, Analyze
UpdateConfig(c) ==
    /\ pc = "ready"
    /\ config' = c
    /\ UNCHANGED <<req, pc, result, allSignals, fusedSignals, fuseTrace, fuseGroups,
                   dowVars, sdVars, fvgVars, fibVars, vpVars, chVars>>

determineMarketPhase(res) ==
    IF res.DowTheory # Nil /\ res.DowTheory.TrendStrength # Nil
    THEN LET trendStrength == res.DowTheory.TrendStrength.Overall
             direction == res.DowTheory.TrendStrength.Direction
         IN  IF QGt(trendStrength, R(70))
             THEN IF direction = "up" THEN "markup"
                  ELSE IF direction = "down" THEN "markdown"
                  ELSE "sideways"
             ELSE IF QLt(trendStrength, R(30))
             THEN IF res.VolumeProfile # Nil /\ res.VolumeProfile.ValueArea # Nil
                  THEN IF QGt(res.VolumeProfile.ValueArea.Concentration, R(2))
                       THEN "accumulation" ELSE "distribution"
                  ELSE "sideways"
             ELSE "sideways"
    ELSE "sideways"

\* of MarketStructure the model carries the trend fields, the volatility and
\* the phase; the key levels are not carried
analyzeMarketStructure(res) ==
    LET hasTrend == res.DowTheory # Nil /\ res.DowTheory.TrendStrength # Nil
    IN  [TrendDirection |-> IF hasTrend THEN res.DowTheory.TrendStrength.Direction
                            ELSE "",
         TrendStrength |-> IF hasTrend THEN res.DowTheory.TrendStrength.Overall
                           ELSE Zero,
         Volatility |-> IF hasTrend
                        THEN QSub(R(100), res.DowTheory.TrendStrength.Consistency)
                        ELSE Zero,
         MarketPhase |-> determineMarketPhase(res)]

\* the points a risk level adds to assessRisk's riskScore
riskPoints(level) ==
    CASE level = "low" -> 1
      [] level = "medium" -> 2
      [] level = "high" -> 3
      [] OTHER -> 0

overallRiskOf(riskScore) ==
    LET avgRisk == QDiv(R(riskScore), R(3))
    IN  IF QLe(avgRisk, Q(3, 2)) THEN "low"
        ELSE IF QLe(avgRisk, Q(5, 2)) THEN "medium"
        ELSE "high"

\* a component that is not assessed keeps the zero value "" of RiskLevel
assessRisk(res) ==
    LET trendRisk ==
            IF res.DowTheory # Nil /\ res.DowTheory.TrendStrength # Nil
            THEN IF QGt(res.DowTheory.TrendStrength.Overall, R(70))
                    /\ QGt(res.DowTheory.TrendStrength.Consistency, R(70))
                 THEN "low"
                 ELSE IF QGt(res.DowTheory.TrendStrength.Overall, R(50))
                 THEN "medium" ELSE "high"
            ELSE ""
        volatilityRisk ==
            IF res.MarketStructure # Nil
            THEN IF QLt(res.MarketStructure.Volatility, R(20)) THEN "low"
                 ELSE IF QLt(res.MarketStructure.Volatility, R(50)) THEN "medium"
                 ELSE "high"
            ELSE ""
        liquidityRisk ==
            IF res.VolumeProfile # Nil /\ res.VolumeProfile.ValueArea # Nil
            THEN IF QGt(res.VolumeProfile.ValueArea.Concentration, R(2)) THEN "low"
                 ELSE IF QGt(res.VolumeProfile.ValueArea.Concentration, Q(12, 10))
                 THEN "medium" ELSE "high"
            ELSE ""
        zonePoints ==
            IF res.SupplyDemand # Nil /\ res.SupplyDemand.Statistics # Nil
               /\ QLt(res.SupplyDemand.Statistics.SuccessRate, R(50))
            THEN 1 ELSE 0
    IN  [TrendRisk |-> trendRisk, VolatilityRisk |-> volatilityRisk,
         LiquidityRisk |-> liquidityRisk,
         OverallRisk |-> overallRiskOf(riskPoints(trendRisk) + riskPoints(volatilityRisk)
                                       + riskPoints(liquidityRisk) + zonePoints)]

withRiskAssessment(res) == res @@ [RiskAssessment |-> assessRisk(res)]

withMarketStructure(res) == withRiskAssessment(res @@ [MarketStructure |-> analyzeMarketStructure(res)])

\* Analyze from the point where the signals are collected and fused; the
\* trading advice, a text derived from the result, is not carried
returnResult(res, all, run) ==
    /\ allSignals' = all
    /\ fusedSignals' = run.out
    /\ fuseTrace' = run.trace
    /\ fuseGroups' = run.groups
    /\ result' = withMarketStructure(
                      [res EXCEPT !.Config = config] @@
                      [UnifiedSignals |-> generateUnifiedSignals(config, run.out)])

fuseCollected(res, all) == returnResult(res, all, fuseRun(all))

unifyResult(res) ==
    fuseCollected(res, collectAll(config, res, req.currentPrice, req.now,
                                  req.coarseClock))

Analyze ==
    /\ pc = "ready"
    /\ unifyResult([CurrentPrice |-> req.currentPrice,
                    Config |-> config,
                    DowTheory |-> IF config.EnableDowTheory /\ req.len4h > 20
                                  THEN DowAnalyzeResult(req.dow) ELSE Nil,
                    VolumeProfile |-> IF config.EnableVPVR /\ req.len4h > 10
                                      THEN req.vp ELSE Nil,
                    SupplyDemand |-> IF config.EnableSupplyDemand /\ req.len4h > 15
                                     THEN req.sd ELSE Nil,
                    FairValueGaps |-> IF config.EnableFVG /\ req.len4h > 10
                                      THEN req.fvg ELSE Nil,
                    Fibonacci |-> IF config.EnableFibonacci /\ req.len4h > 15
                                  THEN req.fib ELSE Nil])
    /\ pc' = "done"
    /\ UNCHANGED <<config, req, dowVars, sdVars, fvgVars, fibVars, vpVars, chVars>>

Next ==
    \/ \E c \in ConfigCases : UpdateConfig(c)
    \/ Analyze

Spec == Init /\ [][Next]_vars

-----------------------------------------------------------------------------
(* Comprehensive analyzer: Analyze running concurrently with UpdateConfig.   *)
(* Analyze reads the field ca.config anew at every use and UpdateConfig      *)
(* assigns it without synchronisation; each read returns the pointer that    *)
(* was assigned last before it.  One step is taken per read of Analyze and   *)
(* of generateUnifiedSignals; the five collectors read their weights in one  *)
(* step.                                                                     *)

slotNames == <<"DowTheory", "VolumeProfile", "SupplyDemand", "FairValueGaps", "Fibonacci">>

gatePc == <<"gate1", "gate2", "gate3", "gate4", "gate5">>

\* what Analyze assigns to the slot of one analyzer under configuration cfg
slotValue(cfg, r, slot) ==
    CASE slot = 1 -> IF cfg.EnableDowTheory /\ r.len4h > 20
                     THEN DowAnalyzeResult(r.dow) ELSE Nil
      [] slot = 2 -> IF cfg.EnableVPVR /\ r.len4h > 10 THEN r.vp ELSE Nil
      [] slot = 3 -> IF cfg.EnableSupplyDemand /\ r.len4h > 15 THEN r.sd ELSE Nil
      [] slot = 4 -> IF cfg.EnableFVG /\ r.len4h > 10 THEN r.fvg ELSE Nil
      [] slot = 5 -> IF cfg.EnableFibonacci /\ r.len4h > 15 THEN r.fib ELSE Nil

\* requests of the concurrent runs: a 4h window long enough for every
\* analyzer, a clock that advances, the trend-following Dow case
ConcurrentRequests ==
    {r \in Requests : r.len4h = 25 /\ ~r.coarseClock /\ r.dow = CaDowBase}

ConcurrentInit ==
    /\ config = defaultComprehensiveConfig
    /\ req \in ConcurrentRequests
    /\ pc = "ready"
    /\ result = Nil
    /\ allSignals = <<>>
    /\ fusedSignals = <<>>
    /\ fuseTrace = <<>>
    /\ fuseGroups = <<>>
    /\ DowIdle
    /\ SDIdle
    /\ FVGIdle
    /\ FibIdle
    /\ VPIdle
    /\ ChannelIdle

\* UpdateConfig called by another goroutine, before or while Analyze runs
ConcurrentUpdateConfig(c) ==
    /\ pc # "done"
    /\ c # config
    /\ config' = c
    /\ UNCHANGED <<req, pc, result, allSignals, fusedSignals, fuseTrace, fuseGroups,
                   dowVars, sdVars, fvgVars, fibVars, vpVars, chVars>>

\* Analyze: the result literal with Config: ca.config
AnalyzeBegin ==
    /\ pc = "ready"
    /\ result' = [CurrentPrice |-> req.currentPrice, Config |-> config,
                  DowTheory |-> Nil, VolumeProfile |-> Nil, SupplyDemand |-> Nil,
                  FairValueGaps |-> Nil, Fibonacci |-> Nil]
    /\ pc' = gatePc[1]
    /\ UNCHANGED <<config, req, allSignals, fusedSignals, fuseTrace, fuseGroups,
                   dowVars, sdVars, fvgVars, fibVars, vpVars, chVars>>

\* Analyze: one "if ca.config.EnableX && len(klines4h) > n" with its analysis
AnalyzeGate(slot) ==
    /\ pc = gatePc[slot]
    /\ result' = [result EXCEPT ![slotNames[slot]] = slotValue(config, req, slot)]
    /\ pc' = IF slot < 5 THEN gatePc[slot + 1] ELSE "collect"
    /\ UNCHANGED <<config, req, allSignals, fusedSignals, fuseTrace, fuseGroups,
                   dowVars, sdVars, fvgVars, fibVars, vpVars, chVars>>

fuseConcurrently(all, run) ==
    /\ allSignals' = all
    /\ fusedSignals' = run.out
    /\ fuseTrace' = run.trace
    /\ fuseGroups' = run.groups

\* generateUnifiedSignals: the collectors, which read the weights, and
\* fuseSignals
AnalyzeCollect ==
    /\ pc = "collect"
    /\ fuseConcurrently(collectAll(config, result, req.currentPrice, req.now, req.coarseClock),
                        fuseRun(collectAll(config, result, req.currentPrice, req.now,
                                           req.coarseClock)))
    /\ pc' = "filter"
    /\ UNCHANGED <<config, req, result, dowVars, sdVars, fvgVars, fibVars, vpVars, chVars>>

\* generateUnifiedSignals: the MinConfidence filter and the sort
AnalyzeFilter ==
    /\ pc = "filter"
    /\ result' = result @@
                  [UnifiedSignals |->
                      sortByConfidence(filterMinConfidence(fusedSignals,
                                                           config.MinConfidence))]
    /\ pc' = "truncate"
    /\ UNCHANGED <<config, req, allSignals, fusedSignals, fuseTrace, fuseGroups,
                   dowVars, sdVars, fvgVars, fibVars, vpVars, chVars>>

\* generateUnifiedSignals: the MaxSignals cut, then the rest of Analyze
AnalyzeTruncate ==
    /\ pc = "truncate"
    /\ result' = withMarketStructure(
                      [result EXCEPT !.UnifiedSignals = truncate(@, config.MaxSignals)])
    /\ pc' = "done"
    /\ UNCHANGED <<config, req, allSignals, fusedSignals, fuseTrace, fuseGroups,
                   dowVars, sdVars, fvgVars, fibVars, vpVars, chVars>>

ConcurrentNext ==
    \/ \E c \in ConfigCases : ConcurrentUpdateConfig(c)
    \/ AnalyzeBegin
    \/ \E slot \in 1..5 : AnalyzeGate(slot)
    \/ AnalyzeCollect
    \/ AnalyzeFilter
    \/ AnalyzeTruncate

SpecConcurrent == ConcurrentInit /\ [][ConcurrentNext]_vars

-----------------------------------------------------------------------------
\* C4: every Dow signal whose action is not hold has confidence at least
\* SignalConfig.MinConfidence and risk/reward at least
\* SignalConfig.RiskRewardMin; a candidate that misses either is replaced by
\* hold.
C4_NonHoldMeetsConfidenceAndRiskReward ==
    (pcDow = "done" /\ tradingSignal.Action # "hold")
        => /\ QGe(tradingSignal.Confidence, dowConfig.SignalConfig.MinConfidence)
           /\ QGe(tradingSignal.RiskReward, dowConfig.SignalConfig.RiskRewardMin)

-----------------------------------------------------------------------------
(* Supply/demand analyzer: zones of a kline window.  Indices are the code's  *)
(* (0-based); K(klines, i) is klines[i].                                     *)

defaultSDConfig ==
    [MinImpulsePercent |-> Q(2, 100), MinBasePercent |-> Q(5, 1000),
     MaxBasePercent |-> Q(3, 100), MinVolumeFactor |-> Q(3, 2),
     MaxZoneAge |-> 50, MaxTouchCount |-> 3, BreakoutThreshold |-> Q(1, 100),
     QualityThreshold |-> Q(6, 10)]

K(klines, i) == klines[i + 1]

MaxQ(S) == CHOOSE x \in S : \A y \in S : QLe(y, x)
MinQ(S) == CHOOSE x \in S : \A y \in S : QLe(x, y)

findHighestHigh(klines, start, end) ==
    MaxQ({K(klines, i).High : i \in start..MinOfInt(end, Len(klines) - 1)})

findLowestLow(klines, start, end) ==
    MinQ({K(klines, i).Low : i \in start..MinOfInt(end, Len(klines) - 1)})

\* <<start, end>> of the base around centerIndex, <<-1, -1>> if its range is
\* outside [MinBasePercent, MaxBasePercent]
findBaseArea(klines, centerIndex) ==
    LET start == IF centerIndex - 3 < 0 THEN 0 ELSE centerIndex - 3
        end == IF centerIndex + 3 >= Len(klines) THEN Len(klines) - 1
               ELSE centerIndex + 3
        high == findHighestHigh(klines, start, end)
        low == findLowestLow(klines, start, end)
        rangePercent == QDiv(QSub(high, low), low)
    IN  IF QLt(rangePercent, defaultSDConfig.MinBasePercent)
           \/ QGt(rangePercent, defaultSDConfig.MaxBasePercent)
        THEN <<-1, -1>>
        ELSE <<start, end>>

impulseMet(startPrice, endPrice, isRally) ==
    LET priceChange == QDiv(QSub(endPrice, startPrice), startPrice)
    IN  IF isRally THEN QGt(priceChange, defaultSDConfig.MinImpulsePercent)
        ELSE QLt(priceChange, QSub(Zero, defaultSDConfig.MinImpulsePercent))

validateLeftMove(klines, baseStart, isRally) ==
    IF baseStart < 5 THEN FALSE
    ELSE impulseMet(K(klines, baseStart - 5).Close, K(klines, baseStart).Close, isRally)

validateRightMove(klines, baseEnd, isRally) ==
    IF baseEnd >= Len(klines) - 5 THEN FALSE
    ELSE impulseMet(K(klines, baseEnd).Close, K(klines, baseEnd + 5).Close, isRally)

calculateImpulseMove(klines, startIndex, isRally) ==
    IF startIndex >= Len(klines) - 5 THEN Zero
    ELSE
    LET startPrice == K(klines, startIndex).Close
        closeAfter == K(klines, startIndex + 5).Close
        span == startIndex..(startIndex + 5)
    IN  IF isRally
        THEN QDiv(QSub(MaxQ({closeAfter} \cup {K(klines, i).High : i \in span}),
                       startPrice), startPrice)
        ELSE QDiv(QSub(startPrice,
                       MinQ({closeAfter} \cup {K(klines, i).Low : i \in span})),
                  startPrice)

\* the sum of klines[start..end].Volume, halving the range
RECURSIVE sumVolume(_, _, _)
sumVolume(klines, start, end) ==
    IF start > end THEN Zero
    ELSE IF start = end THEN K(klines, start).Volume
    ELSE LET mid == (start + end) \div 2
         IN  QAdd(sumVolume(klines, start, mid), sumVolume(klines, mid + 1, end))

calculateAverageVolume(klines, start, end) ==
    LET first == IF start < 0 THEN 0 ELSE start
        last == IF end >= Len(klines) THEN Len(klines) - 1 ELSE end
    IN  IF last < first THEN Zero
        ELSE QDiv(sumVolume(klines, first, last), R(last - first + 1))

\* buy and sell volume estimated at 70/30 by candle colour
RECURSIVE sumBuyVolume(_, _, _)
sumBuyVolume(klines, start, end) ==
    IF start > end THEN Zero
    ELSE IF start = end
    THEN QMul(K(klines, start).Volume,
              IF QGt(K(klines, start).Close, K(klines, start).Open)
              THEN Q(7, 10) ELSE Q(3, 10))
    ELSE LET mid == (start + end) \div 2
         IN  QAdd(sumBuyVolume(klines, start, mid), sumBuyVolume(klines, mid + 1, end))

calculateZoneVolumeProfile(klines, start, end) ==
    LET last == MinOfInt(end, Len(klines) - 1)
        totalVolume == sumVolume(klines, start, last)
        buyVolume == sumBuyVolume(klines, start, last)
        sellVolume == QSub(totalVolume, buyVolume)
    IN  [TotalVolume |-> totalVolume,
         VolumeImbalance |-> IF QGt(sellVolume, Zero)
                             THEN QDiv(buyVolume, sellVolume) ELSE Zero]

\* 4h candles: OpenTime of klines[i]
Hour == 3600 * 1000
OpenTime(interval, i) == i * interval

NewZone(id, type, high, low, index, pattern, impulse, confirmation, created, volumeProfile) ==
    [ID |-> id, Type |-> type, UpperBound |-> high, LowerBound |-> low,
     CenterPrice |-> QDiv(QAdd(high, low), R(2)), Width |-> QSub(high, low),
     WidthPercent |-> QMul(QDiv(QSub(high, low), low), R(100)),
     KlineIndex |-> index, PatternType |-> pattern, ImpulseMove |-> impulse,
     Confirmation |-> confirmation, Status |-> "fresh", CreationTime |-> created,
     IsActive |-> TRUE, IsBroken |-> FALSE, TouchCount |-> 0,
     VolumeProfile |-> volumeProfile,
     Volume |-> IF volumeProfile = Nil THEN Zero ELSE volumeProfile.TotalVolume,
     Strength |-> Zero, Quality |-> ""]

\* the four base patterns differ in the direction of the left and right moves
identifyBasePattern(klines, interval, centerIndex, leftRally, rightRally, prefix, pattern) ==
    IF centerIndex < 5 \/ centerIndex >= Len(klines) - 5 THEN Nil
    ELSE
    LET base == findBaseArea(klines, centerIndex)
        baseStart == base[1]
        baseEnd == base[2]
    IN  IF baseStart = -1 \/ baseEnd = -1 THEN Nil
        ELSE IF ~validateLeftMove(klines, baseStart, leftRally) THEN Nil
        ELSE IF ~validateRightMove(klines, baseEnd, rightRally) THEN Nil
        ELSE NewZone(<<prefix, baseStart, baseEnd>>,
                     IF rightRally THEN "demand" ELSE "supply",
                     findHighestHigh(klines, baseStart, baseEnd),
                     findLowestLow(klines, baseStart, baseEnd),
                     centerIndex, pattern,
                     calculateImpulseMove(klines, baseEnd, rightRally), TRUE,
                     OpenTime(interval, centerIndex),
                     calculateZoneVolumeProfile(klines, baseStart, baseEnd))

identifyDropBaseDrop(klines, interval, i) ==
    identifyBasePattern(klines, interval, i, FALSE, FALSE, "supply", "drop_base_drop")

identifyRallyBaseRally(klines, interval, i) ==
    identifyBasePattern(klines, interval, i, TRUE, TRUE, "demand", "rally_base_rally")

identifyRallyBaseDrop(klines, interval, i) ==
    identifyBasePattern(klines, interval, i, TRUE, FALSE, "supply_ob",
                        "rally_base_drop_ob")

identifyDropBaseRally(klines, interval, i) ==
    identifyBasePattern(klines, interval, i, FALSE, TRUE, "demand_ob",
                        "drop_base_rally_ob")

identifyFreshSupply(klines, interval, index) ==
    IF index < 3 \/ index >= Len(klines) - 3 THEN Nil
    ELSE
    LET priceChange == QDiv(QSub(K(klines, index).Close, K(klines, index - 3).Close),
                            K(klines, index - 3).Close)
        avgVolume == calculateAverageVolume(klines, index - 10, index)
    IN  IF QGt(priceChange, QSub(Zero, defaultSDConfig.MinImpulsePercent)) THEN Nil
        ELSE IF QLt(K(klines, index).Volume,
                    QMul(avgVolume, defaultSDConfig.MinVolumeFactor)) THEN Nil
        ELSE NewZone(<<"fresh_supply", index>>, "supply",
                     K(klines, index - 1).High, K(klines, index).Low, index,
                     "fresh_supply", abs(priceChange), FALSE,
                     OpenTime(interval, index), Nil)

identifyFreshDemand(klines, interval, index) ==
    IF index < 3 \/ index >= Len(klines) - 3 THEN Nil
    ELSE
    LET priceChange == QDiv(QSub(K(klines, index).Close, K(klines, index - 3).Close),
                            K(klines, index - 3).Close)
        avgVolume == calculateAverageVolume(klines, index - 10, index)
    IN  IF QLt(priceChange, defaultSDConfig.MinImpulsePercent) THEN Nil
        ELSE IF QLt(K(klines, index).Volume,
                    QMul(avgVolume, defaultSDConfig.MinVolumeFactor)) THEN Nil
        ELSE NewZone(<<"fresh_demand", index>>, "demand",
                     K(klines, index).High, K(klines, index - 1).Low, index,
                     "fresh_demand", priceChange, FALSE,
                     OpenTime(interval, index), Nil)

zonesOverlap(zone1, zone2) ==
    ~(QLt(zone1.UpperBound, zone2.LowerBound) \/ QLt(zone2.UpperBound, zone1.LowerBound))

\* sort.Slice by Strength, descending: an insertion sort for up to 12 zones,
\* which the windows analysed here never exceed
RECURSIVE insertByStrength(_, _)
insertByStrength(sorted, x) ==
    IF sorted = <<>> THEN <<x>>
    ELSE LET last == sorted[Len(sorted)]
         IN  IF QGt(x.Strength, last.Strength)
             THEN insertByStrength(SubSeq(sorted, 1, Len(sorted) - 1), x) \o <<last>>
             ELSE sorted \o <<x>>

RECURSIVE sortByStrength(_, _)
sortByStrength(zones, n) ==
    IF n = 0 THEN <<>>
    ELSE insertByStrength(sortByStrength(zones, n - 1), zones[n])

isZoneOverlapping(newZone, existingZones) ==
    \E k \in 1..Len(existingZones) : zonesOverlap(newZone, existingZones[k])

RECURSIVE keepNonOverlapping(_, _, _)
keepNonOverlapping(zones, k, filtered) ==
    IF k > Len(zones) THEN filtered
    ELSE keepNonOverlapping(zones, k + 1,
             IF isZoneOverlapping(zones[k], filtered) THEN filtered
             ELSE Append(filtered, zones[k]))

filterOverlappingZones(zones) ==
    IF Len(zones) <= 1 THEN zones
    ELSE keepNonOverlapping(sortByStrength(zones, Len(zones)), 1, <<>>)

calculateZoneStrength(zone, klines) ==
    LET avgVolume == calculateAverageVolume(klines, 0, Len(klines) - 1)
        byImpulse == QMul(zone.ImpulseMove, R(50))
        byVolume == IF QGt(avgVolume, Zero)
                    THEN QMul(min(QDiv(zone.Volume, avgVolume), R(5)), R(10))
                    ELSE Zero
        byWidth == IF QGt(zone.WidthPercent, Zero)
                   THEN QMul(QDiv(R(5), zone.WidthPercent), R(5))
                   ELSE Zero
        byPattern == IF zone.PatternType \in {"drop_base_drop", "rally_base_rally"}
                     THEN R(15)
                     ELSE IF zone.PatternType \in {"rally_base_drop_ob",
                                                   "drop_base_rally_ob"}
                     THEN R(12)
                     ELSE R(8)
    IN  [zone EXCEPT !.Strength =
             min(QAdd(QAdd(byImpulse, byVolume), QAdd(byWidth, byPattern)), R(100))]

assessZoneQuality(zone) ==
    LET imbalance == IF zone.VolumeProfile = Nil THEN Zero
                     ELSE IF zone.Type = "supply"
                             /\ QLt(zone.VolumeProfile.VolumeImbalance, Q(8, 10))
                     THEN R(10)
                     ELSE IF zone.Type = "demand"
                             /\ QGt(zone.VolumeProfile.VolumeImbalance, Q(12, 10))
                     THEN R(10)
                     ELSE Zero
        score == QAdd(QAdd(zone.Strength, imbalance),
                      IF zone.Confirmation THEN R(5) ELSE Zero)
    IN  [zone EXCEPT !.Quality =
             IF QGe(score, R(80)) THEN "strong"
             ELSE IF QGe(score, R(65)) THEN "good"
             ELSE IF QGe(score, R(50)) THEN "moderate"
             ELSE "weak"]

RECURSIVE scoreZones(_, _, _)
scoreZones(zones, klines, k) ==
    IF k > Len(zones) THEN <<>>
    ELSE <<assessZoneQuality(calculateZoneStrength(zones[k], klines))>>
         \o scoreZones(zones, klines, k + 1)

RECURSIVE supplyCandidates(_, _, _)
supplyCandidates(klines, interval, i) ==
    IF i >= Len(klines) - 5 THEN <<>>
    ELSE NonNil(<<identifyDropBaseDrop(klines, interval, i),
                  identifyRallyBaseDrop(klines, interval, i),
                  identifyFreshSupply(klines, interval, i)>>)
         \o supplyCandidates(klines, interval, i + 1)

identifySupplyZones(klines, interval) ==
    scoreZones(filterOverlappingZones(supplyCandidates(klines, interval, 5)),
               klines, 1)

RECURSIVE demandCandidates(_, _, _)
demandCandidates(klines, interval, i) ==
    IF i >= Len(klines) - 5 THEN <<>>
    ELSE NonNil(<<identifyRallyBaseRally(klines, interval, i),
                  identifyDropBaseRally(klines, interval, i),
                  identifyFreshDemand(klines, interval, i)>>)
         \o demandCandidates(klines, interval, i + 1)

identifyDemandZones(klines, interval) ==
    scoreZones(filterOverlappingZones(demandCandidates(klines, interval, 5)),
               klines, 1)

isZoneBroken(zone, currentPrice) ==
    LET threshold == defaultSDConfig.BreakoutThreshold
    IN  IF zone.Type = "supply"
        THEN QGt(currentPrice, QMul(zone.UpperBound, QAdd(R(1), threshold)))
        ELSE QLt(currentPrice, QMul(zone.LowerBound, QSub(R(1), threshold)))

priceInZone(high, low, zone) ==
    ~(QLt(high, zone.LowerBound) \/ QGt(low, zone.UpperBound))

countZoneTouches(zone, klines) ==
    Cardinality({i \in (zone.KlineIndex + 1)..(Len(klines) - 1) :
                    priceInZone(K(klines, i).High, K(klines, i).Low, zone)})

\* the status of one zone against the last candle of the window
updateZoneStatus(zone, klines, interval) ==
    LET currentTime == OpenTime(interval, Len(klines) - 1)
        currentPrice == K(klines, Len(klines) - 1).Close
        age == (currentTime - zone.CreationTime) \div Hour
        touchCount == countZoneTouches(zone, klines)
    IN  IF age > defaultSDConfig.MaxZoneAge
        THEN [zone EXCEPT !.Status = "expired", !.IsActive = FALSE]
        ELSE IF isZoneBroken(zone, currentPrice)
        THEN [zone EXCEPT !.Status = "broken", !.IsBroken = TRUE, !.IsActive = FALSE]
        ELSE [zone EXCEPT !.TouchCount = touchCount,
                          !.Status = IF touchCount > defaultSDConfig.MaxTouchCount
                                     THEN "weakened"
                                     ELSE IF touchCount > 0 THEN "tested"
                                     ELSE zone.Status]

RECURSIVE updateZoneStatuses(_, _, _, _)
updateZoneStatuses(zones, klines, interval, k) ==
    IF k > Len(zones) THEN <<>>
    ELSE <<updateZoneStatus(zones[k], klines, interval)>>
         \o updateZoneStatuses(zones, klines, interval, k + 1)

filterActiveZones(zones) ==
    SelectSeq(zones, LAMBDA zone :
        zone.IsActive /\ QGe(zone.Strength,
                             QMul(defaultSDConfig.QualityThreshold, R(100))))

\* index of the first strict maximum of High from start on; the code's index
\* variable starts at 0 and moves only on a strictly higher high
highestIndexFrom(klines, start) ==
    LET span == start..(Len(klines) - 1)
        first == CHOOSE i \in span :
                     \A j \in span : /\ QLe(K(klines, j).High, K(klines, i).High)
                                     /\ j < i => QLt(K(klines, j).High, K(klines, i).High)
    IN  IF first = start THEN 0 ELSE first

lowestIndexFrom(klines, start) ==
    LET span == start..(Len(klines) - 1)
        first == CHOOSE i \in span :
                     \A j \in span : /\ QGe(K(klines, j).Low, K(klines, i).Low)
                                     /\ j < i => QGt(K(klines, j).Low, K(klines, i).Low)
    IN  IF first = start THEN 0 ELSE first

basicZone(klines, interval, index, prefix, type, pattern) ==
    LET around == {i \in (index - 1)..(index + 1) : i >= 0 /\ i < Len(klines)}
        upper == MaxQ({K(klines, i).High : i \in around})
        lower == MinQ({K(klines, i).Low : i \in around})
    IN  [NewZone(<<prefix, index>>, type, upper, lower, index, pattern, Q(15, 1000),
                 FALSE, OpenTime(interval, index), Nil)
         EXCEPT !.Strength = R(60), !.Quality = "moderate"]

identifyBasicZones(klines, interval) ==
    IF Len(klines) < 20 THEN <<>>
    ELSE
    LET start == Len(klines) - 20
        highestIndex == highestIndexFrom(klines, start)
        lowestIndex == lowestIndexFrom(klines, start)
    IN  (IF highestIndex > start + 2 /\ highestIndex < Len(klines) - 2
         THEN <<basicZone(klines, interval, highestIndex, "basic_supply", "supply",
                          "fresh_supply")>>
         ELSE <<>>)
        \o
        (IF lowestIndex > start + 2 /\ lowestIndex < Len(klines) - 2
         THEN <<basicZone(klines, interval, lowestIndex, "basic_demand", "demand",
                          "fresh_demand")>>
         ELSE <<>>)

\* the fallback loop of Analyze: each backup zone is admitted if it overlaps
\* none of the zones found or admitted so far
\* (allZones is append(supplyZones, demandZones...): the two slices share no
\* element that is read after being overwritten while fewer than five supply
\* zones are retained, which holds for the windows analysed here)
RECURSIVE addBackupZones(_, _, _)
addBackupZones(backupZones, k, acc) ==
    IF k > Len(backupZones) THEN acc
    ELSE LET zone == backupZones[k]
         IN  addBackupZones(backupZones, k + 1,
                 IF isZoneOverlapping(zone, acc.allZones) THEN acc
                 ELSE [allZones |-> Append(acc.allZones, zone),
                       ActiveZones |-> IF zone.IsActive
                                       THEN Append(acc.ActiveZones, zone)
                                       ELSE acc.ActiveZones,
                       SupplyZones |-> IF zone.Type = "supply"
                                       THEN Append(acc.SupplyZones, zone)
                                       ELSE acc.SupplyZones,
                       DemandZones |-> IF zone.Type = "supply" THEN acc.DemandZones
                                       ELSE Append(acc.DemandZones, zone)])

EmptySDData == [SupplyZones |-> <<>>, DemandZones |-> <<>>, ActiveZones |-> <<>>]

\* Analyze from the point where both lists of zones are identified and updated
withBackupZones(supplyZones, demandZones, activeZones, klines, interval) ==
    IF Len(activeZones) < 2
    THEN addBackupZones(identifyBasicZones(klines, interval), 1,
                        [allZones |-> supplyZones \o demandZones,
                         ActiveZones |-> activeZones,
                         SupplyZones |-> supplyZones, DemandZones |-> demandZones])
    ELSE [allZones |-> supplyZones \o demandZones, ActiveZones |-> activeZones,
          SupplyZones |-> supplyZones, DemandZones |-> demandZones]

withActiveZones(supplyZones, demandZones, klines, interval) ==
    withBackupZones(supplyZones, demandZones,
                    filterActiveZones(supplyZones \o demandZones), klines, interval)

withoutAllZones(found) ==
    [SupplyZones |-> found.SupplyZones, DemandZones |-> found.DemandZones,
     ActiveZones |-> found.ActiveZones]

SDAnalyzeResult(klines, interval) ==
    IF Len(klines) < 10 THEN EmptySDData
    ELSE withoutAllZones(
             withActiveZones(
                 updateZoneStatuses(identifySupplyZones(klines, interval),
                                    klines, interval, 1),
                 updateZoneStatuses(identifyDemandZones(klines, interval),
                                    klines, interval, 1),
                 klines, interval))

-----------------------------------------------------------------------------
(* Supply/demand analyzer: successive analyses of a growing kline window *)

Candle(open, close, volume) ==
    [Open |-> R(open), Close |-> R(close),
     High |-> R(IF open > close THEN open ELSE close),
     Low |-> R(IF open < close THEN open ELSE close), Volume |-> R(volume)]

RECURSIVE Flat(_, _)
Flat(price, n) == IF n = 0 THEN <<>> ELSE <<Candle(price, price, 10)>> \o Flat(price, n - 1)

\* a sell-off on volume out of a flat market, then quiet below it
DropSeed == Flat(100, 5) \o <<Candle(100, 97, 40)>> \o Flat(96, 5)

\* the same sell-off answered three candles later by a rebound on volume
DropReboundSeed ==
    Flat(100, 5) \o <<Candle(100, 97, 40)>> \o Flat(96, 2)
    \o <<Candle(96, 99, 60)>> \o Flat(99, 5)

RECURSIVE Walk(_, _)
Walk(open, closes) ==
    IF closes = <<>> THEN <<>>
    ELSE <<Candle(open, Head(closes), 10)>> \o Walk(Head(closes), Tail(closes))

\* rally, seven-candle base between 99 and 101, rally
RallyBaseRallySeed ==
    Walk(95, <<95, 96, 97, 98, 99, 100, 101, 100, 101, 100, 101, 100,
               101, 102, 103, 104, 104>>)

\* drop, seven-candle base between 99 and 101, drop
DropBaseDropSeed ==
    Walk(105, <<105, 104, 103, 102, 101, 100, 99, 100, 99, 100, 99, 100,
                99, 98, 97, 96, 96>>)

\* a sell-off, one quiet candle at its low, then a candle on volume that does
\* not leave that low
StalledDropSeed ==
    Flat(100, 5) \o <<Candle(100, 96, 10)>> \o Flat(96, 1)
    \o <<Candle(96, 96, 40)>> \o Flat(96, 5)

SDSeeds == {DropSeed, DropReboundSeed, RallyBaseRallySeed, DropBaseDropSeed, StalledDropSeed}

SDIntervals == {4 * Hour, 8 * Hour}

\* closes of the candles appended; each opens at the previous close
SDCloses == {96, 99, 102}

\* candles appended to a seed window
MaxAppend == 4

SDInit ==
    /\ sdKlines \in SDSeeds
    /\ sdInterval \in SDIntervals
    /\ sdAppended = 0
    /\ sdResult = Nil
    /\ sdPrevious = Nil
    /\ DowIdle
    /\ CaIdle
    /\ FVGIdle
    /\ FibIdle
    /\ VPIdle
    /\ ChannelIdle

\* the caller's window grows by one closed candle
SDAppendKline(close) ==
    /\ sdAppended < MaxAppend
    /\ sdKlines' = Append(sdKlines,
                          Candle(sdKlines[Len(sdKlines)].Close[1], close, 10))
    /\ sdAppended' = sdAppended + 1
    /\ UNCHANGED <<sdInterval, sdResult, sdPrevious, dowVars, caVars,
                   fvgVars, fibVars, vpVars, chVars>>

\* SupplyDemandAnalyzer.Analyze on the current window; sdPrevious keeps what the
\* analysis before it reported
SDAnalyze ==
    /\ sdResult' = SDAnalyzeResult(sdKlines, sdInterval)
    /\ sdPrevious' = sdResult
    /\ UNCHANGED <<sdKlines, sdInterval, sdAppended, dowVars, caVars, fvgVars, fibVars, vpVars, chVars>>

SDNext ==
    \/ \E close \in SDCloses : SDAppendKline(close)
    \/ SDAnalyze

SpecSD == SDInit /\ [][SDNext]_vars

-----------------------------------------------------------------------------
(* FVG analyzer: fair value gaps of a kline window (0-based indices) *)

defaultFVGConfig ==
    [MinGapPercent |-> Q(2, 1000), MaxGapPercent |-> Q(5, 100),
     MinVolumeRatio |-> Q(12, 10), MaxAge |-> 50, MaxTouchCount |-> 3,
     FillThreshold |-> Q(8, 10), RequireVolConf |-> FALSE]

\* FVGAnalyzer.calculateAverageVolume: 0 for a range of fewer than two klines
FVGcalculateAverageVolume(klines, start, end) ==
    LET first == IF start < 0 THEN 0 ELSE start
        last == IF end >= Len(klines) THEN Len(klines) - 1 ELSE end
    IN  IF first >= last THEN Zero
        ELSE QDiv(sumVolume(klines, first, last), R(last - first + 1))

calculateTrend(klines, start, end) ==
    IF start >= end \/ end >= Len(klines) THEN Zero
    ELSE QDiv(QSub(K(klines, end).Close, K(klines, start).Close),
              K(klines, start).Close)

determineFormationType(klines, index, fvgType) ==
    IF index < 5 \/ index >= Len(klines) - 5 THEN "continuation"
    ELSE
    LET preTrend == calculateTrend(klines, index - 5, index - 1)
        postTrend == calculateTrend(klines, index + 1, index + 5)
        up(t) == QGt(t, Q(1, 100))
        down(t) == QLt(t, Q(-1, 100))
    IN  IF fvgType = "bullish"
        THEN IF up(preTrend) /\ up(postTrend) THEN "continuation"
             ELSE IF down(preTrend) /\ up(postTrend) THEN "reversal"
             ELSE IF up(preTrend) /\ down(postTrend) THEN "pullback"
             ELSE "breakout"
        ELSE IF down(preTrend) /\ down(postTrend) THEN "continuation"
             ELSE IF up(preTrend) /\ down(postTrend) THEN "reversal"
             ELSE IF down(preTrend) /\ up(postTrend) THEN "pullback"
             ELSE "breakout"

calculateVolumeContext(klines, index) ==
    IF index < 10 \/ index >= Len(klines)
    THEN [VolumeRatio |-> Zero, VolumeConfirmation |-> FALSE]
    ELSE
    LET avgVolume == FVGcalculateAverageVolume(klines, index - 10, index)
        volumeRatio == IF QGt(avgVolume, Zero)
                       THEN QDiv(K(klines, index).Volume, avgVolume)
                       ELSE R(1)
    IN  [VolumeRatio |-> volumeRatio,
         VolumeConfirmation |-> QGe(volumeRatio, defaultFVGConfig.MinVolumeRatio)]

volumeConfirmed(klines, index) ==
    ~defaultFVGConfig.RequireVolConf
    \/ QGe(K(klines, index).Volume,
           QMul(FVGcalculateAverageVolume(klines, index - 10, index),
                defaultFVGConfig.MinVolumeRatio))

NewGap(id, type, gapLow, gapHigh, gapWidthPercent, klines, index) ==
    [ID |-> id, Type |-> type, UpperBound |-> gapHigh, LowerBound |-> gapLow,
     CenterPrice |-> QDiv(QAdd(gapHigh, gapLow), R(2)),
     Width |-> QSub(gapHigh, gapLow), WidthPercent |-> gapWidthPercent,
     KlineIndex |-> index,
     ImpulsiveMove |-> QMul(QDiv(QSub(K(klines, index + 1).Close,
                                      K(klines, index - 1).Close),
                                 K(klines, index - 1).Close), R(100)),
     FormationType |-> determineFormationType(klines, index, type),
     VolumeContext |-> calculateVolumeContext(klines, index),
     Status |-> "fresh", IsActive |-> TRUE, IsFilled |-> FALSE,
     IsPartialFill |-> FALSE, TouchCount |-> 0, FillProgress |-> Zero,
     Strength |-> Zero, Quality |-> ""]

gapSizeAllowed(gapWidthPercent) ==
    ~(QLt(gapWidthPercent, QMul(defaultFVGConfig.MinGapPercent, R(100)))
      \/ QGt(gapWidthPercent, QMul(defaultFVGConfig.MaxGapPercent, R(100))))

\* variant measuring the gap from the low of the previous candle
identifyBullishFVGFromLow(klines, index) ==
    IF index < 1 \/ index >= Len(klines) - 1 THEN Nil
    ELSE
    LET gapLow == K(klines, index - 1).Low
        gapHigh == K(klines, index + 1).Low
        gapWidthPercent == QMul(QDiv(QSub(gapHigh, gapLow), gapLow), R(100))
    IN  IF QGe(gapLow, gapHigh) THEN Nil
        ELSE IF ~gapSizeAllowed(gapWidthPercent) THEN Nil
        ELSE NewGap(<<"bull_fvg", index>>, "bullish", gapLow, gapHigh,
                    gapWidthPercent, klines, index)

identifyBullishFVG(klines, index) ==
    IF index < 1 \/ index >= Len(klines) - 1 THEN Nil
    ELSE
    LET gapLow == K(klines, index - 1).High
        gapHigh == K(klines, index + 1).Low
        gapWidthPercent == QMul(QDiv(QSub(gapHigh, gapLow), gapLow), R(100))
    IN  IF QGe(gapLow, gapHigh) THEN Nil
        ELSE IF ~gapSizeAllowed(gapWidthPercent) THEN Nil
        ELSE IF ~volumeConfirmed(klines, index) THEN Nil
        ELSE NewGap(<<"bull_fvg", index>>, "bullish", gapLow, gapHigh,
                    gapWidthPercent, klines, index)

identifyBearishFVG(klines, index) ==
    IF index < 1 \/ index >= Len(klines) - 1 THEN Nil
    ELSE
    LET gapHigh == K(klines, index - 1).Low
        gapLow == K(klines, index + 1).High
        gapWidthPercent == QMul(QDiv(QSub(gapHigh, gapLow), gapHigh), R(100))
    IN  IF QLe(gapHigh, gapLow) THEN Nil
        ELSE IF ~gapSizeAllowed(gapWidthPercent) THEN Nil
        ELSE IF ~volumeConfirmed(klines, index) THEN Nil
        ELSE NewGap(<<"bear_fvg", index>>, "bearish", gapLow, gapHigh,
                    gapWidthPercent, klines, index)

calculateAge(gap, klines) == Len(klines) - gap.KlineIndex - 1

\* the reach of the last candle alone into the gap
calculateFillProgressOfLastKline(gap, klines, startIndex) ==
    IF startIndex >= Len(klines) - 1 THEN Zero
    ELSE
    LET last == K(klines, Len(klines) - 1)
        penetration ==
            IF gap.Type = "bullish"
            THEN max(QSub(gap.UpperBound, last.Low), Zero)
            ELSE max(QSub(last.High, gap.LowerBound), Zero)
    IN  IF QLe(gap.Width, Zero) THEN Zero
        ELSE QMul(QDiv(penetration, gap.Width), R(100))

\* the deepest reach of a later candle into the gap, in percent of its width
calculateFillProgress(gap, klines, startIndex) ==
    IF startIndex >= Len(klines) - 1 THEN Zero
    ELSE
    LET later == (startIndex + 1)..(Len(klines) - 1)
        penetrations ==
            IF gap.Type = "bullish"
            THEN {QSub(gap.UpperBound, K(klines, i).Low) :
                     i \in {m \in later : QLe(K(klines, m).Low, gap.UpperBound)}}
            ELSE {QSub(K(klines, i).High, gap.LowerBound) :
                     i \in {m \in later : QGe(K(klines, m).High, gap.LowerBound)}}
        maxPenetration == MaxQ(penetrations \cup {Zero})
    IN  IF QLe(gap.Width, Zero) THEN Zero
        ELSE QMul(QDiv(maxPenetration, gap.Width), R(100))

doesCandleTouchFVG(kline, gap) ==
    ~(QLt(kline.High, gap.LowerBound) \/ QGt(kline.Low, gap.UpperBound))

countTouches(gap, klines) ==
    IF gap.KlineIndex >= Len(klines) - 1 THEN 0
    ELSE Cardinality({i \in (gap.KlineIndex + 1)..(Len(klines) - 1) :
                         doesCandleTouchFVG(K(klines, i), gap)})

\* updateFVGStatuses, for one gap: age, then fill progress, then touches
updateFVGStatus(gap, klines) ==
    IF calculateAge(gap, klines) > defaultFVGConfig.MaxAge
    THEN [gap EXCEPT !.Status = "expired", !.IsActive = FALSE]
    ELSE
    LET fillProgress == calculateFillProgress(gap, klines, gap.KlineIndex)
        isFilled == QGe(fillProgress, QMul(defaultFVGConfig.FillThreshold, R(100)))
        isPartial == ~isFilled /\ QGt(fillProgress, R(20))
        afterFill == [gap EXCEPT !.FillProgress = fillProgress,
                                 !.Status = IF isFilled THEN "filled"
                                            ELSE IF isPartial THEN "partial_fill"
                                            ELSE gap.Status,
                                 !.IsFilled = isFilled,
                                 !.IsActive = IF isFilled THEN FALSE ELSE gap.IsActive,
                                 !.IsPartialFill = isPartial]
        touchCount == countTouches(gap, klines)
    IN  [afterFill EXCEPT !.TouchCount = touchCount,
                          !.IsActive = IF touchCount > defaultFVGConfig.MaxTouchCount
                                       THEN FALSE ELSE afterFill.IsActive,
                          !.Status = IF touchCount <= defaultFVGConfig.MaxTouchCount
                                        /\ touchCount > 0
                                     THEN "tested" ELSE afterFill.Status]

filterActiveFVGs(gaps) == SelectSeq(gaps, LAMBDA gap : gap.IsActive /\ ~gap.IsFilled)

calculateFVGStrength(gap, klines) ==
    LET byWidth == min(QMul(gap.WidthPercent, R(20)), R(30))
        byImpulse == min(QMul(abs(gap.ImpulsiveMove), R(10)), R(25))
        byVolume == IF QGt(gap.VolumeContext.VolumeRatio, R(1))
                    THEN min(QMul(QSub(gap.VolumeContext.VolumeRatio, R(1)), R(15)),
                             R(20))
                    ELSE Zero
        byFormation == CASE gap.FormationType = "breakout" -> R(15)
                         [] gap.FormationType = "reversal" -> R(12)
                         [] gap.FormationType = "continuation" -> R(8)
                         [] gap.FormationType = "pullback" -> R(5)
        age == calculateAge(gap, klines)
        ageBonus == IF age > 10 /\ ~gap.IsFilled
                    THEN min(Q(age - 10, 2), R(10)) ELSE Zero
        strength == QAdd(QAdd(QAdd(byWidth, byImpulse), QAdd(byVolume, byFormation)),
                         ageBonus)
        touchPenalty == R(gap.TouchCount * 3)
    IN  [gap EXCEPT !.Strength = min(max(QSub(strength, touchPenalty), Zero), R(100))]

assessFVGQuality(gap) ==
    LET byFill == IF QGt(gap.FillProgress, R(50)) THEN QMul(gap.Strength, Q(7, 10))
                  ELSE IF QLt(gap.FillProgress, R(20)) THEN QAdd(gap.Strength, R(10))
                  ELSE gap.Strength
        byVolume == IF gap.VolumeContext.VolumeConfirmation THEN R(5) ELSE Zero
        byFormation == IF gap.FormationType \in {"breakout", "reversal"} THEN R(8)
                       ELSE IF gap.FormationType = "continuation" THEN R(5)
                       ELSE Zero
        score == QAdd(byFill, QAdd(byVolume, byFormation))
    IN  [gap EXCEPT !.Quality = IF QGe(score, R(80)) THEN "high"
                                ELSE IF QGe(score, R(60)) THEN "medium"
                                ELSE "low"]

\* the gaps of one type in index order, each after status update and scoring
gapsOfType(klines, fvgType) ==
    LET found == SelectSeq([n \in 1..(Len(klines) - 2) |->
                               IF fvgType = "bullish"
                               THEN identifyBullishFVG(klines, n)
                               ELSE identifyBearishFVG(klines, n)],
                           LAMBDA gap : gap # Nil)
    IN  [n \in 1..Len(found) |->
            assessFVGQuality(calculateFVGStrength(updateFVGStatus(found[n], klines),
                                                  klines))]

FVGAnalyzeResult(klines) ==
    IF Len(klines) < 3 THEN Nil
    ELSE
    LET bullishFVGs == gapsOfType(klines, "bullish")
        bearishFVGs == gapsOfType(klines, "bearish")
    IN  [BullishFVGs |-> bullishFVGs, BearishFVGs |-> bearishFVGs,
         ActiveFVGs |-> filterActiveFVGs(bullishFVGs \o bearishFVGs)]

-----------------------------------------------------------------------------
(* FVG analyzer: successive analyses of a growing kline window *)

\* prices in tenths
Bar(low, high, open, close) ==
    [Open |-> Q(open, 10), Close |-> Q(close, 10), High |-> Q(high, 10),
     Low |-> Q(low, 10), Volume |-> R(10)]

UpBar(low, high) == Bar(low, high, low, high)
DownBar(low, high) == Bar(low, high, high, low)

\* three rising candles with lows/highs 100/110, 120/130, 135/145
WideGapSeed == <<UpBar(1000, 1100), UpBar(1200, 1300), UpBar(1350, 1450)>>

\* three rising candles leaving the gap 101..104 open
BullishSeed == <<UpBar(1000, 1010), UpBar(1020, 1030), UpBar(1040, 1050)>>

\* three falling candles leaving the gap 101..104 open
BearishSeed == <<DownBar(1040, 1050), DownBar(1020, 1030), DownBar(1000, 1010)>>

\* the bullish gap followed by quiet candles above it, one short of expiry
AgedSeed == BullishSeed \o [n \in 1..48 |-> UpBar(1060, 1070)]

\* the bullish gap with two more candles resting on its upper bound
TestedSeed == BullishSeed \o <<UpBar(1040, 1050), UpBar(1040, 1050)>>

FVGSeeds == {WideGapSeed, BullishSeed, BearishSeed, AgedSeed, TestedSeed}

\* lows and highs, in tenths, of the candles appended
FVGBars == {<<1040, 1050>>, <<1030, 1050>>, <<1016, 1050>>, <<1000, 1050>>,
            <<1000, 1010>>, <<1000, 1020>>, <<1060, 1070>>}

\* candles appended to a seed window
MaxFVGAppend == 3

FVGInit ==
    /\ fvgKlines \in FVGSeeds
    /\ fvgAppended = 0
    /\ fvgResult = Nil
    /\ fvgPrevious = Nil
    /\ DowIdle
    /\ CaIdle
    /\ SDIdle
    /\ FibIdle
    /\ VPIdle
    /\ ChannelIdle

\* the caller's window grows by one closed candle (rising, low to high)
FVGAppendKline(bar) ==
    /\ fvgAppended < MaxFVGAppend
    /\ fvgKlines' = Append(fvgKlines, UpBar(bar[1], bar[2]))
    /\ fvgAppended' = fvgAppended + 1
    /\ UNCHANGED <<fvgResult, fvgPrevious, dowVars, caVars, sdVars, fibVars, vpVars, chVars>>

\* FVGAnalyzer.Analyze on the current window; fvgPrevious keeps what the
\* analysis before it reported
FVGAnalyze ==
    /\ fvgResult' = FVGAnalyzeResult(fvgKlines)
    /\ fvgPrevious' = fvgResult
    /\ UNCHANGED <<fvgKlines, fvgAppended, dowVars, caVars, sdVars, fibVars, vpVars, chVars>>

FVGNext ==
    \/ \E bar \in FVGBars : FVGAppendKline(bar)
    \/ FVGAnalyze

SpecFVG == FVGInit /\ [][FVGNext]_vars

-----------------------------------------------------------------------------
(* Fibonacci analyzer: retracements of a kline window (0-based indices).     *)
(* Of FibonacciData the model carries the retracements; the quality score,   *)
(* touch counts, extensions, clusters and golden pocket are derived from     *)
(* them and are not carried.                                                 *)

defaultFibonacciConfig ==
    [MinTrendLength |-> Q(3, 100),
     DefaultRatios |-> <<Q(236, 1000), Q(382, 1000), Q(5, 10), Q(618, 1000),
                         Q(786, 1000), R(1), Q(1272, 1000), Q(1618, 1000),
                         Q(2618, 1000)>>]

\* the swing point at index i, Nil if klines[i] is neither a swing high nor a
\* swing low of the eleven candles around it
swingPointAt(klines, i) ==
    LET around == ((i - 5)..(i + 5)) \ {i}
        isSwingHigh == \A j \in around : QLt(K(klines, j).High, K(klines, i).High)
        isSwingLow == \A j \in around : QGt(K(klines, j).Low, K(klines, i).Low)
    IN  IF isSwingHigh
        THEN [Price |-> K(klines, i).High, Timestamp |-> OpenTime(4 * Hour, i), Index |-> i]
        ELSE IF isSwingLow
        THEN [Price |-> K(klines, i).Low, Timestamp |-> OpenTime(4 * Hour, i), Index |-> i]
        ELSE Nil

identifySwingPoints(klines) ==
    NonNil([n \in 1..(Len(klines) - 10) |-> swingPointAt(klines, n + 4)])

calculateFibLevels(start, end, trendType) ==
    [n \in 1..Len(defaultFibonacciConfig.DefaultRatios) |->
        LET ratio == defaultFibonacciConfig.DefaultRatios[n]
            priceRange == QSub(end.Price, start.Price)
        IN  [Ratio |-> ratio,
             Price |-> IF trendType = "upward"
                       THEN QSub(end.Price, QMul(priceRange, ratio))
                       ELSE QAdd(end.Price, QMul(priceRange, ratio)),
             IsGoldenRatio |-> ratio \in {Q(618, 1000), Q(382, 1000)}]]

\* the retracement of one adjacent pair of swing points, Nil if the move
\* between them is shorter than MinTrendLength
retracementOf(startPoint, endPoint, klines) ==
    LET priceMove == abs(QSub(endPoint.Price, startPoint.Price))
        trendType == IF QGt(endPoint.Price, startPoint.Price) THEN "upward"
                     ELSE "downward"
    IN  IF QLt(QDiv(priceMove, startPoint.Price), defaultFibonacciConfig.MinTrendLength)
        THEN Nil
        ELSE [ID |-> <<"fib_ret", startPoint.Index, endPoint.Index>>,
              StartPoint |-> startPoint, EndPoint |-> endPoint,
              TrendType |-> trendType,
              Levels |-> calculateFibLevels(startPoint, endPoint, trendType),
              Age |-> Len(klines) - endPoint.Index, IsActive |-> TRUE]

calculateRetracements(swingPoints, klines) ==
    NonNil([i \in 1..(Len(swingPoints) - 1) |->
               retracementOf(swingPoints[i], swingPoints[i + 1], klines)])

FibAnalyzeResult(klines) ==
    IF Len(klines) < 10 THEN [Retracements |-> <<>>]
    ELSE [Retracements |-> calculateRetracements(identifySwingPoints(klines), klines)]

-----------------------------------------------------------------------------
(* Fibonacci analyzer: successive analyses of a growing kline window *)

\* n highs in tenths, step apart, after the high from
Ramp(from, step, n) == [i \in 1..n |-> from + step * i]

\* rising candles one point tall with the given highs
BarsOf(highs) == [i \in 1..Len(highs) |-> UpBar(highs[i] - 10, highs[i])]

\* six candles up to a peak, six down to a trough, four up again
PeakTroughSeed(step) ==
    BarsOf(Ramp(1000, step, 6) \o Ramp(1000 + 6 * step, -step, 6) \o Ramp(1000, step, 4))

\* six candles down to a trough, six up to a peak, four down again
TroughPeakSeed(step) ==
    BarsOf(Ramp(1100, -step, 6) \o Ramp(1100 - 6 * step, step, 6) \o Ramp(1100, -step, 4))

\* steps of 0.3, 1 and 2 points: swings of 2.7%, 6.6% and 11.6%
FibSteps == {3, 10, 20}

FibSeeds == {PeakTroughSeed(s) : s \in FibSteps} \cup {TroughPeakSeed(s) : s \in FibSteps}

\* highs of the candles a window may grow by
FibHighs == {980, 1060, 1150}

MaxFibAppend == 3

FibInit ==
    /\ fibKlines \in FibSeeds
    /\ fibAppended = 0
    /\ fibResult = Nil
    /\ DowIdle
    /\ CaIdle
    /\ SDIdle
    /\ FVGIdle
    /\ VPIdle
    /\ ChannelIdle

\* the caller's window grows by one closed candle
FibAppendKline(high) ==
    /\ fibAppended < MaxFibAppend
    /\ fibKlines' = Append(fibKlines, UpBar(high - 10, high))
    /\ fibAppended' = fibAppended + 1
    /\ UNCHANGED <<fibResult, dowVars, caVars, sdVars, fvgVars, vpVars, chVars>>

\* FibonacciAnalyzer.Analyze on the current window
FibAnalyze ==
    /\ fibResult' = FibAnalyzeResult(fibKlines)
    /\ UNCHANGED <<fibKlines, fibAppended, dowVars, caVars, sdVars, fvgVars, vpVars, chVars>>

FibNext ==
    \/ \E high \in FibHighs : FibAppendKline(high)
    \/ FibAnalyze

SpecFib == FibInit /\ [][FibNext]_vars

-----------------------------------------------------------------------------
(* VPVR analyzer: volume profile of a kline window.  The keys of levelMap    *)
(* are the prices roundToTick returns, minPrice + tickLevel * TickSize, one  *)
(* per tick level, so the model keys the map by the tick level.  Of          *)
(* VolumeProfile the model carries the levels, the POC, the value area with  *)
(* its bounds and volume share, and the total volume.                        *)

defaultVPVRConfig ==
    [TickSize |-> Q(1, 100), ValueAreaPercent |-> Q(70, 100),
     MinVolume |-> Q(1, 1000), SmoothingFactor |-> R(1)]

\* a function on 1..n, as the sequence of its values
AsSeq(f) == f \o <<>>

\* int(x), truncating toward zero
TruncQ(x) == IF x[1] >= 0 THEN x[1] \div x[2] ELSE -((-x[1]) \div x[2])

\* math.Round(x): to the nearest integer, halves away from zero
RoundQ(x) ==
    IF x[1] >= 0 THEN (2 * x[1] + x[2]) \div (2 * x[2])
    ELSE -((2 * (-x[1]) + x[2]) \div (2 * x[2]))

findPriceRange(klines) ==
    <<MinQ({klines[i].Low : i \in 1..Len(klines)}),
      MaxQ({klines[i].High : i \in 1..Len(klines)})>>

tickLevel(price, minPrice, tickSize) == RoundQ(QDiv(QSub(price, minPrice), tickSize))

roundToTick(price, minPrice, tickSize) ==
    QAdd(minPrice, QMul(R(tickLevel(price, minPrice, tickSize)), tickSize))

maxLevels == 200

\* calculatePriceLevels: the TickSize it leaves in va.config
cappedTickSize(klines, cfg) ==
    LET priceRange == QSub(findPriceRange(klines)[2], findPriceRange(klines)[1])
    IN  IF TruncQ(QDiv(priceRange, cfg.TickSize)) > maxLevels
        THEN QDiv(priceRange, R(maxLevels))
        ELSE cfg.TickSize

buyRatioOf(kline) ==
    LET span == QSub(kline.High, kline.Low)
        raw == IF QGt(kline.Close, kline.Open)
               THEN QAdd(Q(6, 10), QDiv(QMul(Q(2, 10), QSub(kline.Close, kline.Open)), span))
               ELSE IF QLt(kline.Close, kline.Open)
               THEN QSub(Q(4, 10), QDiv(QMul(Q(2, 10), QSub(kline.Open, kline.Close)), span))
               ELSE Q(5, 10)
    IN  max(Q(1, 10), min(Q(9, 10), raw))

\* distributePriceVolume for one kline: the tick levels its loop visits, from
\* kline.Low in steps of TickSize while price <= kline.High, and the volume
\* it adds to the level of each visit
distributePriceVolume(kline, minPrice, tickSize) ==
    LET priceRange == IF kline.High = kline.Low THEN tickSize
                      ELSE QSub(kline.High, kline.Low)
        numLevels == TruncQ(QDiv(priceRange, tickSize)) + 1
        volumePerLevel == QDiv(kline.Volume, R(numLevels))
        visits == TruncQ(QDiv(QSub(kline.High, kline.Low), tickSize)) + 1
    IN  [Visited |-> AsSeq([k \in 1..visits |->
                         tickLevel(QAdd(kline.Low, QMul(R(k - 1), tickSize)),
                                   minPrice, tickSize)]),
         Volume |-> volumePerLevel,
         BuyVolume |-> QMul(volumePerLevel, buyRatioOf(kline)),
         SellVolume |-> QMul(volumePerLevel, QSub(R(1), buyRatioOf(kline)))]

visitsOf(share, level) == Cardinality({k \in DOMAIN share.Visited : share.Visited[k] = level})

addVisits(entry, share, count) ==
    [entry EXCEPT !.Volume = QAdd(@, QMul(R(count), share.Volume)),
                  !.BuyVolume = QAdd(@, QMul(R(count), share.BuyVolume)),
                  !.SellVolume = QAdd(@, QMul(R(count), share.SellVolume)),
                  !.Transactions = @ + count]

\* levelMap's entry of one tick level after the klines 1..j were distributed
RECURSIVE levelMapEntry(_, _, _, _, _)
levelMapEntry(shares, level, minPrice, tickSize, j) ==
    IF j = 0
    THEN [Price |-> QAdd(minPrice, QMul(R(level), tickSize)), Volume |-> Zero,
          BuyVolume |-> Zero, SellVolume |-> Zero, VolumePercent |-> Zero,
          Transactions |-> 0, IsPOC |-> FALSE, InValueArea |-> FALSE]
    ELSE addVisits(levelMapEntry(shares, level, minPrice, tickSize, j - 1),
                   shares[j], visitsOf(shares[j], level))

RECURSIVE totalVolumeOf(_, _, _)
totalVolumeOf(levels, first, last) ==
    IF first > last THEN Zero
    ELSE IF first = last THEN levels[first].Volume
    ELSE QAdd(totalVolumeOf(levels, first, (first + last) \div 2),
              totalVolumeOf(levels, (first + last) \div 2 + 1, last))

withVolumePercent(levels, totalVolume) ==
    IF QGt(totalVolume, Zero)
    THEN AsSeq([i \in 1..Len(levels) |->
             [levels[i] EXCEPT !.VolumePercent =
                 QMul(QDiv(levels[i].Volume, totalVolume), R(100))]])
    ELSE levels

\* smoothVolumes, for level i (1-based): the moving average over the window
smoothedVolume(levels, i, window) ==
    LET start == IF i - window \div 2 < 1 THEN 1 ELSE i - window \div 2
        end == IF i + window \div 2 > Len(levels) THEN Len(levels)
               ELSE i + window \div 2
    IN  QDiv(totalVolumeOf(levels, start, end), R(end - start + 1))

rescaled(level, smoothed) ==
    [level EXCEPT !.Volume = smoothed,
                  !.BuyVolume = QMul(@, QDiv(smoothed, level.Volume)),
                  !.SellVolume = QMul(@, QDiv(smoothed, level.Volume))]

smoothVolumes(levels, cfg) ==
    IF Len(levels) < 3 \/ QLe(cfg.SmoothingFactor, R(1)) THEN levels
    ELSE AsSeq([i \in 1..Len(levels) |->
             rescaled(levels[i], smoothedVolume(levels, i, TruncQ(cfg.SmoothingFactor)))])

\* the levels that reached MinVolume, by price, with their volume shares
keptLevels(levelMap, cfg) ==
    SelectSeq(levelMap, LAMBDA l : l.Transactions > 0 /\ QGe(l.Volume, cfg.MinVolume))

percentAndSmooth(levels, cfg) ==
    IF QGt(cfg.SmoothingFactor, R(1))
    THEN smoothVolumes(withVolumePercent(levels, totalVolumeOf(levels, 1, Len(levels))), cfg)
    ELSE withVolumePercent(levels, totalVolumeOf(levels, 1, Len(levels)))

levelMapOf(shares, minPrice, maxPrice, tickSize) ==
    [n \in 1..(tickLevel(maxPrice, minPrice, tickSize) + 1) |->
        levelMapEntry(shares, n - 1, minPrice, tickSize, Len(shares))]

\* tickSize is the TickSize calculatePriceLevels has left in va.config
calculatePriceLevels(klines, cfg, tickSize) ==
    percentAndSmooth(
        keptLevels(
            levelMapOf(AsSeq([j \in 1..Len(klines) |->
                           distributePriceVolume(klines[j], findPriceRange(klines)[1],
                                                 tickSize)]),
                       findPriceRange(klines)[1], findPriceRange(klines)[2], tickSize),
            cfg),
        cfg)

\* findPOC: the index (1-based) of the first level of the largest volume
findPOC(levels) ==
    CHOOSE i \in 1..Len(levels) :
        /\ \A j \in 1..Len(levels) : QLe(levels[j].Volume, levels[i].Volume)
        /\ \A j \in 1..(i - 1) : QLt(levels[j].Volume, levels[i].Volume)

\* calculateValueArea: the loop that widens <<lowerIndex, upperIndex>> from the
\* POC until the accumulated volume reaches the target
RECURSIVE expandValueArea(_, _, _, _, _)
expandValueArea(levels, lowerIndex, upperIndex, accumulatedVolume, targetVolume) ==
    IF QGe(accumulatedVolume, targetVolume)
    THEN <<lowerIndex, upperIndex, accumulatedVolume>>
    ELSE LET upperVolume == IF upperIndex < Len(levels)
                            THEN levels[upperIndex + 1].Volume ELSE Zero
             lowerVolume == IF lowerIndex > 1
                            THEN levels[lowerIndex - 1].Volume ELSE Zero
         IN  IF QGe(upperVolume, lowerVolume) /\ upperIndex < Len(levels)
             THEN expandValueArea(levels, lowerIndex, upperIndex + 1,
                                  QAdd(accumulatedVolume, upperVolume), targetVolume)
             ELSE IF lowerIndex > 1
             THEN expandValueArea(levels, lowerIndex - 1, upperIndex,
                                  QAdd(accumulatedVolume, lowerVolume), targetVolume)
             ELSE IF upperIndex < Len(levels)
             THEN expandValueArea(levels, lowerIndex, upperIndex + 1,
                                  QAdd(accumulatedVolume, upperVolume), targetVolume)
             ELSE <<lowerIndex, upperIndex, accumulatedVolume>>

valueAreaOf(levels, expanded, totalVolume) ==
    [High |-> levels[expanded[2]].Price, Low |-> levels[expanded[1]].Price,
     VolumePercent |-> QMul(QDiv(expanded[3], totalVolume), R(100))]

calculateValueArea(levels, totalVolume, cfg) ==
    IF Len(levels) = 0 \/ QLe(totalVolume, Zero)
    THEN [High |-> Zero, Low |-> Zero, VolumePercent |-> Zero]
    ELSE valueAreaOf(levels,
                     expandValueArea(levels, findPOC(levels), findPOC(levels),
                                     levels[findPOC(levels)].Volume,
                                     QMul(totalVolume, cfg.ValueAreaPercent)),
                     totalVolume)

\* findPOC marks the POC; markValueAreaLevels marks the levels within the
\* bounds findValueAreaBounds returned, which are the value area's while no
\* level is marked yet
markValueAreaLevels(levels, pocIndex, val, vah) ==
    AsSeq([i \in 1..Len(levels) |->
        [levels[i] EXCEPT !.IsPOC = (i = pocIndex),
                          !.InValueArea = QGe(levels[i].Price, val)
                                          /\ QLe(levels[i].Price, vah)]])

profileOf(levels, pocIndex, valueArea, totalVolume) ==
    [POC |-> markValueAreaLevels(levels, pocIndex, valueArea.Low, valueArea.High)[pocIndex],
     VAH |-> valueArea.High, VAL |-> valueArea.Low, ValueArea |-> valueArea,
     Levels |-> markValueAreaLevels(levels, pocIndex, valueArea.Low, valueArea.High),
     TotalVolume |-> totalVolume]

analyzeLevels(levels, totalVolume, cfg) ==
    profileOf(levels, findPOC(levels), calculateValueArea(levels, totalVolume, cfg),
              totalVolume)

profileOfLevels(levels, cfg) ==
    IF Len(levels) = 0 THEN Nil
    ELSE analyzeLevels(levels, totalVolumeOf(levels, 1, Len(levels)), cfg)

\* VPVRAnalyzer.Analyze: the profile it returns
VPVRAnalyzeResult(klines, cfg) ==
    IF Len(klines) = 0 THEN Nil
    ELSE profileOfLevels(calculatePriceLevels(klines, cfg, cappedTickSize(klines, cfg)), cfg)

-----------------------------------------------------------------------------
(* VPVR analyzer: successive analyses of a growing kline window.  Prices are *)
(* given in thousandths.                                                     *)

Trade(low, high, open, close, volume) ==
    [Open |-> Q(open, 1000), Close |-> Q(close, 1000), High |-> Q(high, 1000),
     Low |-> Q(low, 1000), Volume |-> R(volume)]

\* volume 10 at 1.00, 1 each on 0.99..1.02, 8 each on 1.03..1.05
TwoPeakSeed ==
    <<Trade(1000, 1000, 1000, 1000, 20), Trade(990, 1020, 990, 1020, 4),
      Trade(1030, 1050, 1050, 1030, 24)>>

\* one candle from 1.00 to 3.005, 200.5 ticks of 0.01, and a busy candle at
\* 1.00..1.02
SpikeSeed ==
    <<Trade(1000, 3005, 1000, 3005, 201), Trade(1000, 1020, 1000, 1020, 3000)>>

\* one candle from 1.00 to 5.00, 400 ticks of 0.01, and a busy candle at
\* 1.00..1.04
WideSeed ==
    <<Trade(1000, 5000, 1000, 5000, 201), Trade(1000, 1040, 1040, 1000, 3000)>>

VPSeeds == {TwoPeakSeed, SpikeSeed, WideSeed}

\* the default configuration, and the default with a three-level moving
\* average
VPConfigs == {defaultVPVRConfig, [defaultVPVRConfig EXCEPT !.SmoothingFactor = R(3)]}

\* candles a window may grow by
VPTrades ==
    {Trade(1010, 1030, 1010, 1030, 9), Trade(1020, 1020, 1020, 1020, 4),
     Trade(1000, 1020, 1020, 1000, 6)}

MaxVPAppend == 2

VPInit ==
    /\ vpKlines \in VPSeeds
    /\ vpConfig \in VPConfigs
    /\ vpAppended = 0
    /\ vpProfile = Nil
    /\ DowIdle
    /\ CaIdle
    /\ SDIdle
    /\ FVGIdle
    /\ FibIdle
    /\ ChannelIdle

\* the caller's window grows by one closed candle
VPAppendKline(kline) ==
    /\ vpAppended < MaxVPAppend
    /\ vpKlines' = Append(vpKlines, kline)
    /\ vpAppended' = vpAppended + 1
    /\ UNCHANGED <<vpConfig, vpProfile, dowVars, caVars, sdVars, fvgVars, fibVars, chVars>>

\* VPVRAnalyzer.Analyze on the current window; calculatePriceLevels writes the
\* enlarged TickSize into the analyzer's config
VPAnalyze ==
    /\ vpProfile' = VPVRAnalyzeResult(vpKlines, vpConfig)
    /\ vpConfig' = [vpConfig EXCEPT !.TickSize = cappedTickSize(vpKlines, vpConfig)]
    /\ UNCHANGED <<vpKlines, vpAppended, dowVars, caVars, sdVars, fvgVars, fibVars, chVars>>

\* windows the caller may turn to after an analysis
VPLaterWindows == {TwoPeakSeed, WideSeed}

\* the caller turns to another window (another symbol or period) with the same
\* analyzer, keeping no profile of the window it leaves
VPTakeWindow(klines) ==
    /\ vpProfile # Nil
    /\ klines # vpKlines
    /\ vpKlines' = klines
    /\ vpAppended' = 0
    /\ vpProfile' = Nil
    /\ UNCHANGED <<vpConfig, dowVars, caVars, sdVars, fvgVars, fibVars, chVars>>

VPNext ==
    \/ \E kline \in VPTrades : VPAppendKline(kline)
    \/ \E klines \in VPLaterWindows : VPTakeWindow(klines)
    \/ VPAnalyze

SpecVPVR == VPInit /\ [][VPNext]_vars

-----------------------------------------------------------------------------
(* Channel analyzer: the best channel of a set of trend lines and the price's *)
(* position in it.  The swing points and trend lines of the kline window are  *)
(* inputs; the analysis text is not carried.                                  *)

channelAnalysisConfig ==
    [MinChannelWidth |-> Q(2, 100), MaxChannelWidth |-> Q(18, 100),
     ParallelTolerance |-> Q(8, 100), QualityThreshold |-> Q(75, 100)]

\* the channel analyzer's times count minutes here: the milliseconds of the
\* source exceed the integers of the checker
Day == 24 * 60

canFormChannel(line1, line2) ==
    /\ line1.Type # line2.Type
    /\ QLe(abs(QSub(line1.Slope, line2.Slope)),
           QMul(channelAnalysisConfig.ParallelTolerance,
                max(abs(line1.Slope), abs(line2.Slope))))

createChannel(line1, line2, currentPrice, currentTime) ==
    LET price1 == LineAt(line1, currentTime)
        price2 == LineAt(line2, currentTime)
        upperLine == IF QGt(price1, price2) THEN line1 ELSE line2
        lowerLine == IF QGt(price1, price2) THEN line2 ELSE line1
        width == QDiv(abs(QSub(price1, price2)), currentPrice)
    IN  IF QLt(width, channelAnalysisConfig.MinChannelWidth)
           \/ QGt(width, channelAnalysisConfig.MaxChannelWidth)
        THEN Nil
        ELSE [UpperLine |-> upperLine, LowerLine |-> lowerLine, Width |-> width,
              Direction |-> IF QGt(upperLine.Slope, Q(1, 1000)) THEN "up"
                            ELSE IF QLt(upperLine.Slope, Q(-1, 1000)) THEN "down"
                            ELSE "flat",
              Age |-> currentTime - MinOfInt(upperLine.FirstTime, lowerLine.FirstTime),
              Quality |-> Zero]

scoreChannel(channel) ==
    QAdd(QAdd(QDiv(QAdd(channel.UpperLine.Strength, channel.LowerLine.Strength), R(2)),
              Q(channel.UpperLine.Touches + channel.LowerLine.Touches, 2)),
         QAdd(IF channel.Age <= 7 * Day THEN R(2)
              ELSE IF channel.Age <= 30 * Day THEN R(1) ELSE Zero,
              IF QGe(channel.Width, Q(3, 100)) /\ QLe(channel.Width, Q(8, 100))
              THEN R(1) ELSE Zero))

\* the channel of a pair of lines with the Quality scoreChannel leaves in it
scoredChannel(line1, line2, currentPrice, currentTime) ==
    LET channel == createChannel(line1, line2, currentPrice, currentTime)
    IN  IF channel = Nil THEN Nil
        ELSE [channel EXCEPT !.Quality = min(QDiv(scoreChannel(channel), R(10)), R(1))]

\* pairs <<i, j>> of trend lines whose channel findBestChannel may retain
channelCandidates(trendLines, currentPrice, currentTime) ==
    {pair \in (1..Len(trendLines)) \X (1..Len(trendLines)) :
        /\ pair[1] < pair[2]
        /\ canFormChannel(trendLines[pair[1]], trendLines[pair[2]])
        /\ scoredChannel(trendLines[pair[1]], trendLines[pair[2]], currentPrice,
                         currentTime) # Nil
        /\ QGe(scoredChannel(trendLines[pair[1]], trendLines[pair[2]], currentPrice,
                             currentTime).Quality,
               channelAnalysisConfig.QualityThreshold)}

pairScore(trendLines, pair, currentPrice, currentTime) ==
    scoreChannel(scoredChannel(trendLines[pair[1]], trendLines[pair[2]], currentPrice,
                               currentTime))

\* pair a is retained over pair b: a higher score, or the same score met first
retainedOver(trendLines, a, b, currentPrice, currentTime) ==
    \/ QGt(pairScore(trendLines, a, currentPrice, currentTime),
           pairScore(trendLines, b, currentPrice, currentTime))
    \/ /\ pairScore(trendLines, a, currentPrice, currentTime)
             = pairScore(trendLines, b, currentPrice, currentTime)
       /\ (a[1] < b[1] \/ (a[1] = b[1] /\ a[2] < b[2]))

bestPair(trendLines, candidates, currentPrice, currentTime) ==
    CHOOSE a \in candidates :
        \A b \in candidates \ {a} :
            retainedOver(trendLines, a, b, currentPrice, currentTime)

channelOfPair(trendLines, pair, currentPrice, currentTime) ==
    scoredChannel(trendLines[pair[1]], trendLines[pair[2]], currentPrice, currentTime)

findBestChannel(trendLines, currentPrice, currentTime) ==
    IF channelCandidates(trendLines, currentPrice, currentTime) = {} THEN Nil
    ELSE channelOfPair(trendLines,
             bestPair(trendLines,
                      channelCandidates(trendLines, currentPrice, currentTime),
                      currentPrice, currentTime),
             currentPrice, currentTime)

\* <<position, ratio>>
calculatePricePosition(currentPrice, channel, currentTime) ==
    LET upperPrice == LineAt(channel.UpperLine, currentTime)
        lowerPrice == LineAt(channel.LowerLine, currentTime)
        ratio == max(Zero, min(R(1), QDiv(QSub(currentPrice, lowerPrice),
                                          QSub(upperPrice, lowerPrice))))
    IN  <<IF QGt(ratio, Q(8, 10)) THEN "upper"
          ELSE IF QLt(ratio, Q(2, 10)) THEN "lower"
          ELSE IF QGt(currentPrice, QMul(upperPrice, Q(101, 100))) THEN "break_up"
          ELSE IF QLt(currentPrice, QMul(lowerPrice, Q(99, 100))) THEN "break_down"
          ELSE "middle",
          ratio>>

EmptyChannelData(trendLines) ==
    [ActiveChannel |-> Nil, TrendLines |-> trendLines, CurrentPosition |-> "",
     PriceRatio |-> Zero, Quality |-> Zero, Direction |-> ""]

\* ChannelAnalyzer.Analyze: the ChannelData it returns
ChannelAnalyzeResult(creq) ==
    IF creq.klinesLen < 50 \/ creq.swingPoints < 4 THEN EmptyChannelData(<<>>)
    ELSE IF Len(creq.trendLines) < 2 THEN EmptyChannelData(<<>>)
    ELSE
    LET channel == findBestChannel(creq.trendLines, creq.currentPrice, creq.now)
    IN  IF channel = Nil THEN EmptyChannelData(creq.trendLines)
        ELSE [ActiveChannel |-> channel, TrendLines |-> creq.trendLines,
              CurrentPosition |->
                  calculatePricePosition(creq.currentPrice, channel, creq.now)[1],
              PriceRatio |->
                  calculatePricePosition(creq.currentPrice, channel, creq.now)[2],
              Quality |-> channel.Quality, Direction |-> channel.Direction]

-----------------------------------------------------------------------------
(* Channel analyzer: one Analyze call *)

\* a trend line with its touches and the time of its first point
ChannelLine(type, slope, priceNow, touches, age) ==
    Line(type, slope, priceNow, R(2 * touches + 1)) @@
    [Touches |-> touches, FirstTime |-> BaseTime - age]

\* trend lines, strongest first: a rising channel 100..110; a flat one; a
\* young falling one; two lines too far apart; a resistance line with two
\* support lines; one line
ChannelLineCases ==
    {<<ChannelLine("resistance", SlopeUp, 110, 4, 40 * Day),
       ChannelLine("support", SlopeUp, 100, 3, 40 * Day)>>,
     <<ChannelLine("support", SlopeFlat, 100, 4, 20 * Day),
       ChannelLine("resistance", SlopeFlat, 106, 3, 10 * Day)>>,
     <<ChannelLine("resistance", SlopeDown, 110, 3, 5 * Day),
       ChannelLine("support", SlopeDown, 100, 3, 5 * Day)>>,
     <<ChannelLine("resistance", SlopeUp, 130, 4, 40 * Day),
       ChannelLine("support", SlopeUp, 100, 3, 40 * Day)>>,
     <<ChannelLine("resistance", SlopeUp, 110, 4, 40 * Day),
       ChannelLine("support", SlopeUp, 104, 3, 5 * Day),
       ChannelLine("support", SlopeUp, 100, 3, 40 * Day)>>,
     <<ChannelLine("support", SlopeUp, 100, 3, 40 * Day)>>}

ChannelPrices == {98, 100, 101, 105, 109, 110, 112, 114}

ChannelRequests ==
    {[klinesLen |-> n, swingPoints |-> sp, trendLines |-> tl, currentPrice |-> R(p),
      now |-> BaseTime] :
        n \in {40, 60}, sp \in {3, 6}, tl \in ChannelLineCases, p \in ChannelPrices}

ChannelInit ==
    /\ channelReq \in ChannelRequests
    /\ channelData = Nil
    /\ pcChannel = "ready"
    /\ DowIdle
    /\ CaIdle
    /\ SDIdle
    /\ FVGIdle
    /\ FibIdle
    /\ VPIdle

ChannelAnalyze ==
    /\ pcChannel = "ready"
    /\ channelData' = ChannelAnalyzeResult(channelReq)
    /\ pcChannel' = "done"
    /\ UNCHANGED <<channelReq, dowVars, caVars, sdVars, fvgVars, fibVars, vpVars>>

ChannelNext == ChannelAnalyze

SpecChannel == ChannelInit /\ [][ChannelNext]_vars

-----------------------------------------------------------------------------
(* Claims on the comprehensive analysis *)

Range(f) == {f[k] : k \in DOMAIN f}
Count(f, x) == Cardinality({k \in DOMAIN f : f[k] = x})

Unified == result.UnifiedSignals
Qualifying == {k \in DOMAIN fusedSignals :
                  QGe(fusedSignals[k].Confidence, result.Config.MinConfidence)}

\* C1: the unified signals are exactly the fused signals with confidence at
\* least MinConfidence, ordered by confidence descending and cut to the
\* MaxSignals most confident ones.
C1_UnifiedFilteredSortedTruncated ==
    pc = "done" =>
        /\ \A k \in 1..(Len(Unified) - 1) :
               QGe(Unified[k].Confidence, Unified[k + 1].Confidence)
        /\ Len(Unified) = MinOfInt(result.Config.MaxSignals, Cardinality(Qualifying))
        /\ \A x \in Range(Unified) :
               /\ QGe(x.Confidence, result.Config.MinConfidence)
               /\ Count(Unified, x) <= Count(fusedSignals, x)
        /\ \A k \in Qualifying :
               Count(Unified, fusedSignals[k]) < Count(fusedSignals, fusedSignals[k])
                   => /\ Len(Unified) = result.Config.MaxSignals
                      /\ Len(Unified) > 0
                            => QLe(fusedSignals[k].Confidence,
                                   Unified[Len(Unified)].Confidence)

\* a run in which the filter dropped a signal, the sort reordered the rest
\* and the cut removed one
C1_Witness ==
    /\ pc = "done"
    /\ Cardinality(Qualifying) < Len(fusedSignals)
    /\ Cardinality(Qualifying) > result.Config.MaxSignals
    /\ Len(Unified) > 0
    /\ \E k \in DOMAIN fusedSignals :
           QLt(fusedSignals[1].Confidence, fusedSignals[k].Confidence)
           /\ k \in Qualifying /\ 1 \in Qualifying

Merged == {k \in DOMAIN fusedSignals : Len(fusedSignals[k].Sources) >= 2}

\* the scenario of a Dow buy (confidence 70, weight 0.25) merged with a
\* supply/demand buy (confidence 80, weight 0.2)
DowSdExample(f) ==
    /\ f.Action = "buy"
    /\ f.Sources = <<[Source |-> "dow_theory", Weight |-> Q(1, 4),
                      Confidence |-> R(70)],
                     [Source |-> "supply_demand", Weight |-> Q(1, 5),
                      Confidence |-> R(80)]>>

C3_StopEntryTargetOrdered ==
    pc = "done" =>
        \A u \in Range(Unified) :
            /\ u.Action = "buy" =>
                   QLt(u.StopLoss, u.Entry) /\ QLt(u.Entry, u.TakeProfit)
            /\ u.Action = "sell" =>
                   QLt(u.TakeProfit, u.Entry) /\ QLt(u.Entry, u.StopLoss)

\* entries within 5% of the first entry: |e1 - e2| / e1 <= 0.05
EntriesClose(e1, e2) ==
    /\ QGt(e1, Zero)
    /\ QLe(QMul(abs(QSub(e1, e2)), R(20)), e1)

WithinOneHour(t1, t2) == t1 - t2 <= 3600000 /\ t2 - t1 <= 3600000

Fusible(s1, s2) ==
    /\ s1.Action = s2.Action
    /\ EntriesClose(s1.Entry, s2.Entry)
    /\ WithinOneHour(s1.Timestamp, s2.Timestamp)

\* C5: the fusion step treats two signals as fusible exactly when their
\* actions match, their entries differ by at most 5% of the first entry and
\* their timestamps differ by at most one hour; the second is merged into the
\* first exactly then.
C5_FusibleIffActionPriceTime ==
    pc = "done" =>
        /\ \A t \in Range(fuseTrace) :
               t[3] <=> Fusible(allSignals[t[1]], allSignals[t[2]])
        /\ \A t \in Range(fuseTrace) :
               t[3] <=> \E k \in DOMAIN fuseGroups :
                           /\ fuseGroups[k][1] = t[1]
                           /\ t[2] \in Range(fuseGroups[k])

\* one run with a merge and with a refusal for each reason
C5_Witness ==
    /\ pc = "done"
    /\ \E t \in Range(fuseTrace) : t[3]
    /\ \E t \in Range(fuseTrace) :
           allSignals[t[1]].Action # allSignals[t[2]].Action
    /\ \E t \in Range(fuseTrace) :
           /\ allSignals[t[1]].Action = allSignals[t[2]].Action
           /\ QGt(allSignals[t[1]].Entry, Zero)
           /\ ~EntriesClose(allSignals[t[1]].Entry, allSignals[t[2]].Entry)
    /\ \E t \in Range(fuseTrace) :
           /\ allSignals[t[1]].Action = allSignals[t[2]].Action
           /\ EntriesClose(allSignals[t[1]].Entry, allSignals[t[2]].Entry)
           /\ ~WithinOneHour(allSignals[t[1]].Timestamp, allSignals[t[2]].Timestamp)

\* entry and analyzer weight of the signals merged into fused signal k
Inputs(k) == [i \in DOMAIN fuseGroups[k] |-> allSignals[fuseGroups[k][i]]]

RECURSIVE SumInputWeights(_, _)
SumInputWeights(ins, i) ==
    IF i > Len(ins) THEN Zero
    ELSE QAdd(ins[i].Sources[1].Weight, SumInputWeights(ins, i + 1))

RECURSIVE SumInputWeightedEntries(_, _)
SumInputWeightedEntries(ins, i) ==
    IF i > Len(ins) THEN Zero
    ELSE QAdd(QMul(ins[i].Entry, ins[i].Sources[1].Weight),
              SumInputWeightedEntries(ins, i + 1))

\* C6: the entry of a signal merged from several signals is the average of
\* their entries weighted by their analyzers' weights, and so lies between
\* the smallest and the largest of them.
C6_FusedEntryIsWeightAverage ==
    pc = "done" =>
        \A k \in Merged :
            LET ins == Inputs(k)
                W == SumInputWeights(ins, 1)
                f == fusedSignals[k]
            IN  /\ QGt(W, Zero) =>
                       QMul(f.Entry, W) = SumInputWeightedEntries(ins, 1)
                /\ \E i \in DOMAIN ins : QLe(ins[i].Entry, f.Entry)
                /\ \E i \in DOMAIN ins : QGe(ins[i].Entry, f.Entry)

\* collected signals of one analyzer
SourceCount(source) ==
    Cardinality({k \in DOMAIN allSignals : allSignals[k].Sources[1].Source = source})

\* an analyzer that is switched off, lacks data or returned nothing has an
\* empty slot and no collected signal; any other has its data in the slot and
\* every signal of it collected
SlotSettled(runs, data, slot, source, signalCount) ==
    IF runs /\ data # Nil
    THEN slot = data /\ SourceCount(source) = signalCount
    ELSE slot = Nil /\ SourceCount(source) = 0

WeightsOf(cfg) ==
    {cfg.WeightDowTheory, cfg.WeightVPVR, cfg.WeightSupplyDemand, cfg.WeightFVG,
     cfg.WeightFibonacci}

\* no weight is negative, not every weight is zero, the confidence floor is a
\* percentage and the signal limit is not negative
ValidConfig(cfg) ==
    /\ \A w \in WeightsOf(cfg) : QGe(w, Zero)
    /\ \E w \in WeightsOf(cfg) : QGt(w, Zero)
    /\ QGe(cfg.MinConfidence, Zero) /\ QLe(cfg.MinConfidence, R(100))
    /\ cfg.MaxSignals >= 0

\* C18: a configuration with invalid values is rejected when it is set: the
\* configuration an analysis has run with is valid
C18_AnalysisRunsOnValidConfig == pc = "done" => ValidConfig(config)

RECURSIVE SourcesTotal(_)
SourcesTotal(signals) == IF signals = <<>> THEN 0 ELSE Len(Head(signals).Sources) + SourcesTotal(Tail(signals))

\* C25: fusion neither loses nor duplicates an input: every collected signal
\* is in exactly one output's group, an output built from k inputs carries k
\* sources, and the sources of all outputs total the number of inputs
C25_FusionKeepsEveryInputOnce ==
    pc = "done" =>
        /\ Len(fuseGroups) = Len(fusedSignals)
        /\ \A n \in DOMAIN allSignals :
               Cardinality({k \in DOMAIN fuseGroups : n \in Range(fuseGroups[k])}) = 1
        /\ \A k \in DOMAIN fusedSignals :
               Len(fusedSignals[k].Sources) = Len(fuseGroups[k])
        /\ SourcesTotal(fusedSignals) = Len(allSignals)

\* C26: the signals collected in one analysis run carry timestamps of one unit,
\* epoch milliseconds: any two of them are within the one-hour fusion window,
\* and two of the same action and entry price can be fused
C26_CollectedTimestampsWithinWindow ==
    pc = "done" =>
        \A i, j \in DOMAIN allSignals :
            /\ WithinOneHour(allSignals[i].Timestamp, allSignals[j].Timestamp)
            /\ allSignals[i].Action = allSignals[j].Action
               /\ allSignals[i].Entry = allSignals[j].Entry
               => canFuseSignals(allSignals[i], allSignals[j])

\* the phase the volume profile's concentration decides, sideways if the
\* result has no volume profile to decide by
PhaseByConcentration(res) ==
    IF res.VolumeProfile # Nil /\ res.VolumeProfile.ValueArea # Nil
    THEN IF QGt(res.VolumeProfile.ValueArea.Concentration, R(2))
         THEN "accumulation" ELSE "distribution"
    ELSE "sideways"

\* C21: in a result that has a trend strength, the market phase is markup or
\* markdown whenever the overall trend strength is above 70; for every trend
\* strength of at most 70 it is accumulation or distribution by the volume
\* profile's concentration (accumulation above 2.0), and sideways only if
\* there is no volume profile
C21_PhaseByTrendThenConcentration ==
    pc = "done" /\ result.DowTheory # Nil /\ result.DowTheory.TrendStrength # Nil =>
        IF QGt(result.DowTheory.TrendStrength.Overall, R(70))
        THEN result.MarketStructure.MarketPhase \in {"markup", "markdown"}
        ELSE result.MarketStructure.MarketPhase = PhaseByConcentration(result)

\* the risk levels of the components that were assessed
AssessedRisks(assessment) ==
    SelectSeq(<<assessment.TrendRisk, assessment.VolatilityRisk, assessment.LiquidityRisk>>,
              LAMBDA level : level # "")

\* low up to a mean of 1.5, medium up to 2.5, high above
RiskBucket(total, count) ==
    IF QLe(Q(total, count), Q(3, 2)) THEN "low"
    ELSE IF QLe(Q(total, count), Q(5, 2)) THEN "medium"
    ELSE "high"

RECURSIVE RiskTotal(_)
RiskTotal(levels) == IF levels = <<>> THEN 0 ELSE riskPoints(Head(levels)) + RiskTotal(Tail(levels))

\* C24: the overall risk level is the bucket of the mean of the component
\* risk levels (trend, volatility, liquidity; low 1, medium 2, high 3) that
\* were assessed, also when a component is missing
C24_OverallRiskIsMeanOfAssessed ==
    pc = "done" /\ Len(AssessedRisks(result.RiskAssessment)) > 0 =>
        result.RiskAssessment.OverallRisk
            = RiskBucket(RiskTotal(AssessedRisks(result.RiskAssessment)),
                         Len(AssessedRisks(result.RiskAssessment)))

\* the analyzer slots and unified signals of an analysis of request r that
\* uses configuration cfg in every step
AnalysisUnder(cfg, r) ==
    LET slots == [DowTheory |-> slotValue(cfg, r, 1),
                  VolumeProfile |-> slotValue(cfg, r, 2),
                  SupplyDemand |-> slotValue(cfg, r, 3),
                  FairValueGaps |-> slotValue(cfg, r, 4),
                  Fibonacci |-> slotValue(cfg, r, 5)]
    IN  slots @@
        [UnifiedSignals |->
            generateUnifiedSignals(cfg,
                fuseSignals(collectAll(cfg, slots, r.currentPrice, r.now,
                                       r.coarseClock)))]

SameAnalysis(res, expected) ==
    \A field \in DOMAIN expected : res[field] = expected[field]

\* C22: an analysis that runs concurrently with UpdateConfig uses one
\* configuration, the old or the new one, in all of its steps (analyzer
\* gating, source weights, min_confidence filter, max_signals cut): its result
\* is the result under one of the configurations
C22_AnalysisUsesOneConfiguration ==
    pc = "done" =>
        \E cfg \in ConfigCases : SameAnalysis(result, AnalysisUnder(cfg, req))

-----------------------------------------------------------------------------
(* Claims on the supply/demand analyzer *)

\* every zone an analysis reports, supply zones first
ZonesOf(data) == IF data = Nil THEN <<>> ELSE data.SupplyZones \o data.DemandZones

IntervalsMeet(a, b) ==
    QLe(a.LowerBound, b.UpperBound) /\ QLe(b.LowerBound, a.UpperBound)

\* C7: no two zones of the analyzer's output, whatever their types, overlap in
\* [lower, upper]
C7_RetainedZonesDoNotOverlap ==
    \A i, j \in 1..Len(ZonesOf(sdResult)) :
        i < j => ~IntervalsMeet(ZonesOf(sdResult)[i], ZonesOf(sdResult)[j])

StatusRank(status) ==
    CASE status = "fresh" -> 0
      [] status = "tested" -> 1
      [] status = "weakened" -> 2
      [] status \in {"broken", "expired"} -> 3

\* C8: between one analysis and the next of the grown window, a zone's status
\* never moves back along fresh, tested, weakened, broken|expired, and a zone
\* reported broken or expired is not reported active afterwards
C8_ZoneStatusOnlyMovesForward ==
    \A i \in 1..Len(ZonesOf(sdPrevious)) : \A j \in 1..Len(ZonesOf(sdResult)) :
        LET before == ZonesOf(sdPrevious)[i]
            after == ZonesOf(sdResult)[j]
        IN  before.ID = after.ID =>
                /\ StatusRank(after.Status) >= StatusRank(before.Status)
                /\ before.Status \in {"broken", "expired"} => ~after.IsActive

\* the strength calculateZoneStrength gives a candidate in the analysed window
StrengthIn(zone, klines) == calculateZoneStrength(zone, klines).Strength

KeptIn(zone, filtered) == \E k \in 1..Len(filtered) : filtered[k].ID = zone.ID

\* every candidate the filter dropped overlaps a retained zone that is at
\* least as strong
DroppedForStronger(zones, filtered, klines) ==
    \A n \in 1..Len(zones) :
        ~KeptIn(zones[n], filtered) =>
            \E k \in 1..Len(filtered) :
                /\ zonesOverlap(zones[n], filtered[k])
                /\ QGe(StrengthIn(filtered[k], klines), StrengthIn(zones[n], klines))

FilterKeepsStronger(zones, klines) == DroppedForStronger(zones, filterOverlappingZones(zones), klines)

\* C19: in an analysed window, of two overlapping candidate zones of one type
\* the overlap filter retains the one with the higher strength: a dropped
\* candidate overlaps a retained one of at least its strength
C19_OverlapFilterKeepsStronger ==
    sdResult # Nil /\ sdResult = SDAnalyzeResult(sdKlines, sdInterval) =>
        /\ FilterKeepsStronger(supplyCandidates(sdKlines, sdInterval, 5), sdKlines)
        /\ FilterKeepsStronger(demandCandidates(sdKlines, sdInterval, 5), sdKlines)

\* C30: every zone an analysis reports, the fresh-supply and fresh-demand
\* zones built from adjacent candles included, has its upper bound strictly
\* above its lower bound
C30_ZonesHavePositiveWidth ==
    \A n \in 1..Len(ZonesOf(sdResult)) :
        QGt(ZonesOf(sdResult)[n].UpperBound, ZonesOf(sdResult)[n].LowerBound)

-----------------------------------------------------------------------------
(* Claims on the FVG analyzer *)

\* every gap an analysis reports, bullish gaps first
GapsOf(data) == IF data = Nil THEN <<>> ELSE data.BullishFVGs \o data.BearishFVGs

\* C9: after the lifecycle update a gap that is not expired has status filled
\* if its fill progress reached the fill threshold (80%), and status
\* partial_fill if its fill progress is above 20% and below the threshold
C9_FillProgressDecidesStatus ==
    \A n \in 1..Len(GapsOf(fvgResult)) :
        LET gap == GapsOf(fvgResult)[n]
        IN  gap.Status # "expired" =>
                /\ QGe(gap.FillProgress, R(80)) => gap.Status = "filled"
                /\ QGt(gap.FillProgress, R(20)) /\ QLt(gap.FillProgress, R(80))
                       => gap.Status = "partial_fill"

CandleMeetsGap(kline, gap) ==
    QLe(kline.Low, gap.UpperBound) /\ QLe(gap.LowerBound, kline.High)

\* C10: a gap within its maximum age that no candle after the three candles of
\* its formation has touched is reported with status fresh
C10_UntouchedGapIsFresh ==
    \A n \in 1..Len(GapsOf(fvgResult)) :
        LET gap == GapsOf(fvgResult)[n]
            later == (gap.KlineIndex + 2)..(Len(fvgKlines) - 1)
        IN  /\ Len(fvgKlines) - gap.KlineIndex - 1 <= 50
            /\ \A i \in later : ~CandleMeetsGap(K(fvgKlines, i), gap)
            => gap.Status = "fresh"

\* C11: every reported bullish gap formed at index i has
\* candle[i-1].High < candle[i+1].Low, and every reported bearish gap has
\* candle[i-1].Low > candle[i+1].High
C11_GapsSeparateFormationCandles ==
    \A n \in 1..Len(GapsOf(fvgResult)) :
        LET gap == GapsOf(fvgResult)[n]
            prev == K(fvgKlines, gap.KlineIndex - 1)
            next == K(fvgKlines, gap.KlineIndex + 1)
        IN  IF gap.Type = "bullish" THEN QLt(prev.High, next.Low)
            ELSE QGt(prev.Low, next.High)

\* an analysis that reported a bullish and a bearish gap
C11_Witness ==
    /\ fvgResult # Nil
    /\ Len(fvgResult.BullishFVGs) > 0
    /\ Len(fvgResult.BearishFVGs) > 0

\* C20: the fill progress of every reported gap lies within [0, 100]
C20_FillProgressWithinRange ==
    \A n \in 1..Len(GapsOf(fvgResult)) :
        /\ QGe(GapsOf(fvgResult)[n].FillProgress, Zero)
        /\ QLe(GapsOf(fvgResult)[n].FillProgress, R(100))

SameGap(before, after) == before.Type = after.Type /\ before.KlineIndex = after.KlineIndex

\* C28: between one analysis and the next of the grown window, a gap that was
\* reported filled and has not reached its maximum age is reported filled
\* again, never fresh, tested or partial_fill
C28_FilledGapStaysFilled ==
    \A i \in 1..Len(GapsOf(fvgPrevious)) :
        LET before == GapsOf(fvgPrevious)[i]
        IN  /\ before.Status = "filled"
            /\ calculateAge(before, fvgKlines) <= defaultFVGConfig.MaxAge
            /\ fvgResult = FVGAnalyzeResult(fvgKlines)
            => \E j \in 1..Len(GapsOf(fvgResult)) :
                   /\ SameGap(before, GapsOf(fvgResult)[j])
                   /\ GapsOf(fvgResult)[j].Status = "filled"

\* a gap reported filled by two analyses, the second of a window that a
\* further touching candle was appended to
C28_Witness ==
    \E i \in 1..Len(GapsOf(fvgPrevious)) : \E j \in 1..Len(GapsOf(fvgResult)) :
        /\ SameGap(GapsOf(fvgPrevious)[i], GapsOf(fvgResult)[j])
        /\ GapsOf(fvgPrevious)[i].Status = "filled"
        /\ GapsOf(fvgResult)[j].Status = "filled"
        /\ GapsOf(fvgResult)[j].TouchCount > GapsOf(fvgPrevious)[i].TouchCount

-----------------------------------------------------------------------------
(* Claims on the Fibonacci analyzer *)

Between(price, a, b) == QLe(min(a, b), price) /\ QLe(price, max(a, b))

\* C15: in every retracement, upward or downward, every level of a ratio in
\* (0, 1] has its price between the end swing's price and the start swing's
C15_LevelsBetweenEndAndStart ==
    fibResult # Nil =>
        \A r \in 1..Len(fibResult.Retracements) :
            LET ret == fibResult.Retracements[r]
            IN  \A n \in 1..Len(ret.Levels) :
                    QGt(ret.Levels[n].Ratio, Zero) /\ QLe(ret.Levels[n].Ratio, R(1))
                    => Between(ret.Levels[n].Price, ret.EndPoint.Price,
                               ret.StartPoint.Price)

-----------------------------------------------------------------------------
(* Claims on the VPVR analyzer *)

\* C14: a volume profile never has more than 200 price levels
C14_AtMost200Levels == vpProfile # Nil => Len(vpProfile.Levels) <= 200

\* C12: the level marked as POC has the largest volume_percent of the
\* profile's levels, whatever the smoothing factor
C12_POCHasLargestVolumePercent ==
    vpProfile # Nil =>
        \A i \in 1..Len(vpProfile.Levels) :
            vpProfile.Levels[i].IsPOC =>
                \A j \in 1..Len(vpProfile.Levels) :
                    QLe(vpProfile.Levels[j].VolumePercent,
                        vpProfile.Levels[i].VolumePercent)

\* the volume_percent of the levels first..last marked in_value_area, summed
RECURSIVE valueAreaShare(_, _, _)
valueAreaShare(levels, first, last) ==
    IF first > last THEN Zero
    ELSE IF first = last
    THEN IF levels[first].InValueArea THEN levels[first].VolumePercent ELSE Zero
    ELSE QAdd(valueAreaShare(levels, first, (first + last) \div 2),
              valueAreaShare(levels, (first + last) \div 2 + 1, last))

\* C13: the volume_percent of the levels marked in_value_area sums to at
\* least the configured coverage (70% by default), to within a thousandth of a
\* percentage point
C13_ValueAreaCoversConfiguredShare ==
    vpProfile # Nil =>
        QGe(QAdd(valueAreaShare(vpProfile.Levels, 1, Len(vpProfile.Levels)), Q(1, 1000)),
            QMul(vpConfig.ValueAreaPercent, R(100)))

\* the configuration the analyzer was constructed with: TickSize is the one
\* field Analyze writes, and every configuration of VPConfigs has the default
constructedConfig == [vpConfig EXCEPT !.TickSize = defaultVPVRConfig.TickSize]

\* C27: an analysis leaves the analyzer's configuration as it was, and the
\* profile it returns for a window is the profile a freshly constructed
\* analyzer of the same configuration returns for that window
C27_AnalyzeLeavesAnalyzerUnchanged ==
    [][VPAnalyze =>
          /\ vpConfig' = vpConfig
          /\ vpProfile' = VPVRAnalyzeResult(vpKlines, constructedConfig)]_vars

-----------------------------------------------------------------------------
(* Claims on the Dow theory analyzer *)

\* C16: an analysis of a 4h window too short for swing points, trend lines
\* and trend strength returns no channel and no trend strength, and its
\* trading signal is hold with confidence 0
C16_InsufficientBarsGiveEmptyHold ==
    pcDow = "done" /\ ~dowReq.enough4h /\ dowReq.trendLines = <<>> =>
        /\ DowAnalyzeResult(dowReq).Channel = Nil
        /\ DowAnalyzeResult(dowReq).TrendStrength = Nil
        /\ tradingSignal.Action = "hold"
        /\ tradingSignal.Confidence = Zero

\* C29: in every parallel channel the analysis emits, the line labelled upper
\* has a price at the evaluation time that is at least the price of the line
\* labelled lower
C29_UpperLineNotBelowLower ==
    pcDow = "done" /\ DowAnalyzeResult(dowReq).Channel # Nil =>
        QGe(LineAt(DowAnalyzeResult(dowReq).Channel.UpperLine, dowReq.now),
            LineAt(DowAnalyzeResult(dowReq).Channel.LowerLine, dowReq.now))

-----------------------------------------------------------------------------
(* Claims on the channel analyzer *)

\* C23: with an active channel, the price position is break_up whenever the
\* current price is more than 1% above the channel's upper line, and break_down
\* whenever it is more than 1% below the lower line
C23_BreakPositionsBeyondOnePercent ==
    pcChannel = "done" /\ channelData.ActiveChannel # Nil =>
        /\ QGt(channelReq.currentPrice,
               QMul(LineAt(channelData.ActiveChannel.UpperLine, channelReq.now),
                    Q(101, 100)))
           => channelData.CurrentPosition = "break_up"
        /\ QLt(channelReq.currentPrice,
               QMul(LineAt(channelData.ActiveChannel.LowerLine, channelReq.now),
                    Q(99, 100)))
           => channelData.CurrentPosition = "break_down"

====
